---- MODULE Spec2Model ----
(***************************************************************************)
(* Call / batch orchestration engine of dispatch-mate.                     *)
(*                                                                         *)
(* The store holds two tables, calls and datasets.  They are written by    *)
(* the subverse-webhook edge function (two versions are kept in the same   *)
(* source file), the trigger-calls edge function (the orchestrator), the   *)
(* stop-call and fetch-transcript edge functions and, directly, by the     *)
(* client hook useDispatch (watchdog, startBatch, emergencyStop).  Every   *)
(* handler is asynchronous: each awaited store or provider operation is    *)
(* one atomic step, and steps of different handlers interleave.            *)
(***************************************************************************)
EXTENDS Integers, Sequences, FiniteSets, TLC

\* ------------------------------------------------------------------
\* Bounds of the model
\* ------------------------------------------------------------------
\* number of calls of the batch
MaxCalls == 1
\* number of webhook deliveries the provider (or anybody else) makes
MaxDeliveries == 2
\* number of times the clock advances
MaxTicks == 1
MaxFetches == 1
\* the timed runs: the step of the clock and the time they end at, in ms
TickStep == 2500
Horizon == 55000

\* ------------------------------------------------------------------
\* Values
\* ------------------------------------------------------------------
\* null / undefined of a string-valued field
NULL == "null"
\* null of a timestamp or number field
NoTime == -1
NoNum == -1

DatasetIds == {"d1"}
\* names of the calls of a batch, in the order initializeDataset inserts them
CallNames == <<"A", "B", "C", "D">>

TERMINAL_STATUSES == {"completed", "failed", "canceled"}
NonTerminal == {"queued", "ringing", "active"}

\* JavaScript truthiness of a string (x || y, if (x))
Truthy(s) == s # NULL /\ s # ""
\* JavaScript truthiness of a number
TruthyNum(n) == n # NoNum /\ n # 0
\* a || b on strings, null when both are falsy and the chain ends in null
OrElse(a, b) == IF Truthy(a) THEN a ELSE b

\* Identifiers.  Internal call ids are uuids (the calls.id column); the
\* provider's call id is opaque, it may or may not look like a uuid.
NoId == [fmt |-> "none", ns |-> "none", v |-> "none"]
Uuid(c) == [fmt |-> "uuid", ns |-> "calls.id", v |-> c]
Sid(c) == [fmt |-> "opaque", ns |-> "provider", v |-> c]
SidUuid(c) == [fmt |-> "uuid", ns |-> "provider", v |-> c]
UnknownUuid == [fmt |-> "uuid", ns |-> "calls.id", v |-> "unknown"]
TruthyId(i) == i.fmt # "none"
OrElseId(a, b) == IF TruthyId(a) THEN a ELSE b
uuidRegexTest(i) == i.fmt = "uuid"

\* ------------------------------------------------------------------
\* Strings of the event type, as sequences of characters
\* ------------------------------------------------------------------
UpperChars == <<"A","B","C","D","E","F","G","H","I","J","K","L","M","N","O","P","Q","R","S","T","U","V","W","X","Y","Z">>
LowerChars == <<"a","b","c","d","e","f","g","h","i","j","k","l","m","n","o","p","q","r","s","t","u","v","w","x","y","z">>

LowerChar(ch) == IF \E k \in 1..26 : UpperChars[k] = ch THEN LowerChars[CHOOSE k \in 1..26 : UpperChars[k] = ch] ELSE ch

\* String.prototype.toLowerCase
toLowerCase(s) == [k \in 1..Len(s) |-> LowerChar(s[k])]

MatchAt(s, pat, k) == k + Len(pat) - 1 <= Len(s) /\ SubSeq(s, k, k + Len(pat) - 1) = pat

\* String.prototype.includes
includes(s, pat) == \E k \in 1..(Len(s) + 1) : MatchAt(s, pat, k)

\* String.prototype.replace with a string pattern: the first occurrence only
replace(s, pat, rep) == IF includes(s, pat) THEN LET k == CHOOSE j \in 1..(Len(s) + 1) : MatchAt(s, pat, j) /\ \A m \in 1..(j - 1) : ~MatchAt(s, pat, m) IN SubSeq(s, 1, k - 1) \o rep \o SubSeq(s, k + Len(pat), Len(s)) ELSE s

CallDot == <<"c","a","l","l",".">>
EvRinging == <<"c","a","l","l",".","r","i","n","g","i","n","g">>
EvAnswered == <<"c","a","l","l",".","a","n","s","w","e","r","e","d">>
EvActive == <<"c","a","l","l",".","a","c","t","i","v","e">>
EvTranscript == <<"c","a","l","l",".","t","r","a","n","s","c","r","i","p","t">>
EvTranscriptPartial == <<"c","a","l","l",".","t","r","a","n","s","c","r","i","p","t",".","p","a","r","t","i","a","l">>
EvTranscriptPartialBare == <<"t","r","a","n","s","c","r","i","p","t",".","p","a","r","t","i","a","l">>
EvTranscriptBare == <<"t","r","a","n","s","c","r","i","p","t">>
EvCompleted == <<"c","a","l","l",".","c","o","m","p","l","e","t","e","d">>
EvEnded == <<"c","a","l","l",".","e","n","d","e","d">>
EvCallFinished == <<"c","a","l","l","_","f","i","n","i","s","h","e","d">>
EvFailed == <<"c","a","l","l",".","f","a","i","l","e","d">>
EvNoAnswer == <<"c","a","l","l",".","n","o","_","a","n","s","w","e","r">>
EvBusy == <<"c","a","l","l",".","b","u","s","y">>
EvCanceled == <<"c","a","l","l",".","c","a","n","c","e","l","e","d">>

TRANSCRIPT_EVENTS == <<EvTranscript, EvTranscriptPartial, EvTranscriptPartialBare, EvTranscriptBare>>
COMPLETION_EVENTS == <<EvCompleted, EvEnded, EvCallFinished>>
FAILURE_EVENTS == <<EvFailed, EvNoAnswer, EvBusy, EvCanceled>>

\* LIST.some(e => eventType.includes(e.replace("call.", "")))
SomeIncluded(list, eventType) == \E k \in 1..Len(list) : includes(eventType, replace(list[k], CallDot, <<>>))

\* eventType === one of the list
SomeEqual(list, eventType) == \E k \in 1..Len(list) : eventType = list[k]


\* ------------------------------------------------------------------
\* State
\* ------------------------------------------------------------------
\* environment: the deployed version of subverse-webhook (the source file keeps
\* two), whether SUBVERSE_API_KEY is configured, the clock
VARIABLES ver, apiKey, now, ticks
\* the store
VARIABLES calls, datasets
\* the provider: per call, how often it was asked to trigger it and whether it
\* was asked to cancel it
VARIABLES provider
\* running subverse-webhook handlers and the payloads delivered so far
VARIABLES wh, delivered
\* running trigger-calls handlers (the orchestrator)
VARIABLES orch
\* running stop-call handlers
VARIABLES sc
\* running fetch-transcript handlers and the number of requests so far
VARIABLES ft
\* the client hook useDispatch: its React state, and its running startBatch,
\* watchdog jobs and emergency stop
VARIABLES ui, sb, wd, es

envVars == <<ver, apiKey, now, ticks>>
whVars == <<wh, delivered>>
clientVars == <<ui, sb, wd, es>>
vars == <<ver, apiKey, now, ticks, calls, datasets, provider, wh, delivered, orch, sc, ft, ui, sb, wd, es>>

\* the ids of the rows of public.calls
CallIds == DOMAIN calls
\* "no row"
NoRow == "none"

\* error_message values are sequences of strings; the null message is <<>>
NoMsg == <<>>

\* A row of public.calls (the columns the functions read or write)
NewCall(d) == [dataset_id |-> d, status |-> "queued", call_sid |-> NoId, created_at |-> 0, started_at |-> NoTime, completed_at |-> NoTime, error_message |-> NoMsg, call_duration |-> NoNum, recording_url |-> NULL, refined_transcript |-> NULL, live_transcript |-> NULL]

\* A row of public.datasets as initializeDataset inserts it
NewDataset(n) == [status |-> "approved", total_calls |-> n, successful_calls |-> 0, failed_calls |-> 0, completed_at |-> NoTime]

IsTerminal(st) == st \in TERMINAL_STATUSES

\* ------------------------------------------------------------------
\* Webhook payloads
\* ------------------------------------------------------------------
NoPayload == [event |-> <<>>, metadata_call_id |-> NoId, callId |-> NoId, callSid |-> NoId, call_id |-> NoId, metadata_dataset_id |-> NULL, duration |-> NoNum, recordingUrl |-> NULL, recording_url |-> NULL, transcript |-> NULL, text |-> NULL, content |-> NULL, refinedTranscript |-> NULL, refined_transcript |-> NULL, data_transcript |-> NULL, data_text |-> NULL, data_content |-> NULL]

\* an extractCallId that prefers the top-level callId to the metadata
extractCallIdAliasFirst(payload) == OrElseId(payload.callId, OrElseId(payload.metadata_call_id, OrElseId(payload.callSid, payload.call_id)))

extractCallId(payload) == OrElseId(payload.metadata_call_id, OrElseId(payload.callId, OrElseId(payload.callSid, payload.call_id)))

extractSubverseCallId(payload) == OrElseId(payload.callId, OrElseId(payload.callSid, payload.call_id))

\* first version of the file: refinedTranscript || refined_transcript || transcript
extractRefinedTranscriptV1(payload) == OrElse(payload.refinedTranscript, OrElse(payload.refined_transcript, OrElse(payload.transcript, NULL)))

\* second version of the file: refinedTranscript || refined_transcript
extractRefinedTranscriptV2(payload) == OrElse(payload.refinedTranscript, OrElse(payload.refined_transcript, NULL))

extractRecordingUrl(payload) == OrElse(payload.recordingUrl, OrElse(payload.recording_url, NULL))

extractTranscript(payload) == IF Truthy(payload.transcript) THEN payload.transcript ELSE IF Truthy(payload.text) THEN payload.text ELSE IF Truthy(payload.content) THEN payload.content ELSE IF Truthy(payload.data_transcript) THEN payload.data_transcript ELSE IF Truthy(payload.data_text) THEN payload.data_text ELSE IF Truthy(payload.data_content) THEN payload.data_content ELSE NULL

\* payload.event?.toLowerCase() || ""
EventTypeOf(payload) == toLowerCase(payload.event)

Unknown == <<"u","n","k","n","o","w","n">>

\* payload.event?.replace("call.", "").replace("_", " ") || "unknown"
failureReason(payload) == LET r == replace(replace(payload.event, CallDot, <<>>), <<"_">>, <<" ">>) IN IF r = <<>> THEN Unknown ELSE r

\* `Call ${failureReason}`
FailureMessage(payload) == <<"C","a","l","l"," ">> \o failureReason(payload)

\* ------------------------------------------------------------------
\* Store operations
\* ------------------------------------------------------------------
\* supabase.from("calls").select(...).eq("id", id).single()
CallById(id) == IF id.ns = "calls.id" /\ id.v \in CallIds THEN id.v ELSE NoRow

\* supabase.from("calls").select(...).eq("call_sid", sid).single(): one row or null
CallBySid(sid) == LET rows == {c \in CallIds : calls[c].call_sid = sid} IN IF Cardinality(rows) = 1 THEN CHOOSE c \in rows : TRUE ELSE NoRow

\* the columns findCall selects
NoCall == [id |-> NoRow, dataset_id |-> NULL, status |-> NULL, call_sid |-> NoId]
Snapshot(c) == [id |-> c, dataset_id |-> calls[c].dataset_id, status |-> calls[c].status, call_sid |-> calls[c].call_sid]

\* select id from calls where dataset_id = d and status not in (completed, failed, canceled)
Remaining(d) == {c \in CallIds : calls[c].dataset_id = d /\ ~IsTerminal(calls[c].status)}

\* rpc increment_dataset_counts(p_dataset_id, p_successful, p_failed): one atomic
\* UPDATE ... SET successful_calls = successful_calls + p_successful, ...
increment_dataset_counts(ds, d, ps, pf) == IF d \in DOMAIN ds THEN [ds EXCEPT ![d].successful_calls = @ + ps, ![d].failed_calls = @ + pf] ELSE ds

\* datasets.update({status: "completed", completed_at}).eq("id", d)
MarkDatasetCompleted(ds, d, t) == IF d \in DOMAIN ds THEN [ds EXCEPT ![d].status = "completed", ![d].completed_at = t] ELSE ds

\* ------------------------------------------------------------------
\* subverse-webhook: one running handler per slot
\* ------------------------------------------------------------------
WebhookSlots == {1, 2}

NoResp == [status |-> 0, skipped |-> FALSE]
NoDetails == [ok |-> FALSE, transcript |-> NULL, refinedTranscript |-> NULL, recordingUrl |-> NULL, duration |-> NoNum]
IdleHandler == [pc |-> "idle", payload |-> NoPayload, call |-> NoCall, details |-> NoDetails, remaining |-> NoNum, resp |-> NoResp]

\* the awaited operations of serve, in program order
Stages == <<"t_update", "r_update", "a_update", "c_fetch", "c_update", "c_incr", "c_check", "c_mark", "f_update", "f_incr", "f_check", "f_mark">>
StageIndex(st) == IF st = "find" THEN 0 ELSE CHOOSE k \in 1..Len(Stages) : Stages[k] = st

\* a handler that takes no call for terminal
SnapNeverTerminal(h) == FALSE

\* TERMINAL_STATUSES.includes(call.status), on the row findCall returned
SnapTerminal(h) == IsTerminal(h.call.status)

\* first version: if (eventType === "call.completed" || ...) and the early return
CompletionMatchV1(h) == SomeEqual(COMPLETION_EVENTS, EventTypeOf(h.payload))
FailureMatchV1(h) == SomeEqual(FAILURE_EVENTS, EventTypeOf(h.payload))
SkippedV1(h) == (CompletionMatchV1(h) \/ FailureMatchV1(h)) /\ SnapTerminal(h)

\* second version: LIST.some(e => eventType.includes(e.replace("call.", "")))
TranscriptMatchV2(h) == SomeIncluded(TRANSCRIPT_EVENTS, EventTypeOf(h.payload))
CompletionMatchV2(h) == SomeIncluded(COMPLETION_EVENTS, EventTypeOf(h.payload))
FailureMatchV2(h) == SomeIncluded(FAILURE_EVENTS, EventTypeOf(h.payload))

InCompletion(h) == ~SnapTerminal(h) /\ IF ver = 1 THEN CompletionMatchV1(h) ELSE CompletionMatchV2(h)
InFailure(h) == ~SnapTerminal(h) /\ IF ver = 1 THEN FailureMatchV1(h) ELSE FailureMatchV2(h)

\* if (!remaining || remaining.length === 0): remaining is null (NoNum) when the
\* read returned an error
NoneRemaining(h) == h.remaining = NoNum \/ h.remaining = 0

\* whether serve reaches the awaited operation st, for the handler's payload and
\* the call row findCall returned
StageGuard(h, st) == CASE st = "t_update" -> ver = 2 /\ TranscriptMatchV2(h) /\ Truthy(extractTranscript(h.payload)) [] st = "r_update" -> ver = 2 /\ EventTypeOf(h.payload) = EvRinging [] st = "a_update" -> ver = 2 /\ EventTypeOf(h.payload) \in {EvAnswered, EvActive} [] st = "c_fetch" -> ver = 1 /\ InCompletion(h) /\ ~Truthy(extractRefinedTranscriptV1(h.payload)) /\ TruthyId(extractSubverseCallId(h.payload)) [] st \in {"c_update", "c_incr", "c_check"} -> InCompletion(h) [] st = "c_mark" -> InCompletion(h) /\ NoneRemaining(h) [] st \in {"f_update", "f_incr", "f_check"} -> InFailure(h) [] st = "f_mark" -> InFailure(h) /\ NoneRemaining(h) [] OTHER -> FALSE

\* the final Response of serve
Respond(h) == [IdleHandler EXCEPT !.resp = [status |-> 200, skipped |-> (ver = 1 /\ SkippedV1(h))]]

\* the handler after the awaited operation st has returned: it runs on to the
\* next awaited operation, or to the response
After(h, st) == LET later == {k \in (StageIndex(st) + 1)..Len(Stages) : StageGuard(h, Stages[k])} IN IF later = {} THEN Respond(h) ELSE [h EXCEPT !.pc = Stages[CHOOSE k \in later : \A m \in later : k <= m]]

\* const resolvedDatasetId = datasetId || call.dataset_id
resolvedDatasetId(h) == OrElse(h.payload.metadata_dataset_id, h.call.dataset_id)

\* req.json(), extractCallId, the 400 answer for a payload without identifier
WebhookReceive(s, p) ==
    /\ wh[s].pc = "idle"
    /\ Len(delivered) < MaxDeliveries
    /\ delivered' = Append(delivered, p)
    /\ wh' = [wh EXCEPT ![s] = IF TruthyId(extractCallId(p)) THEN [IdleHandler EXCEPT !.pc = "find", !.payload = p] ELSE [IdleHandler EXCEPT !.resp = [status |-> 400, skipped |-> FALSE]]]
    /\ UNCHANGED <<envVars, ft, calls, datasets, provider, orch, sc, clientVars>>

\* findCall: the read by internal id (uuid-shaped identifiers), else by call_sid
WebhookFindCall(s) ==
    /\ wh[s].pc = "find"
    /\ LET h == wh[s]
           id == extractCallId(h.payload)
           c == IF uuidRegexTest(id) THEN CallById(id) ELSE CallBySid(id)
       IN wh' = [wh EXCEPT ![s] = IF c # NoRow THEN After([h EXCEPT !.call = Snapshot(c)], "find") ELSE IF uuidRegexTest(id) THEN [h EXCEPT !.pc = "find_sid"] ELSE [IdleHandler EXCEPT !.resp = [status |-> 404, skipped |-> FALSE]]]
    /\ UNCHANGED <<envVars, ft, calls, datasets, provider, delivered, orch, sc, clientVars>>

\* findCall: the second read, by call_sid, after the read by id found nothing
WebhookFindCallBySid(s) ==
    /\ wh[s].pc = "find_sid"
    /\ LET h == wh[s]
           c == CallBySid(extractCallId(h.payload))
       IN wh' = [wh EXCEPT ![s] = IF c # NoRow THEN After([h EXCEPT !.call = Snapshot(c)], "find") ELSE [IdleHandler EXCEPT !.resp = [status |-> 404, skipped |-> FALSE]]]
    /\ UNCHANGED <<envVars, ft, calls, datasets, provider, delivered, orch, sc, clientVars>>

\* second version: update({live_transcript, status: "active"})
WebhookTranscript(s) ==
    /\ wh[s].pc = "t_update"
    /\ LET h == wh[s] IN
       /\ calls' = [calls EXCEPT ![h.call.id].live_transcript = extractTranscript(h.payload), ![h.call.id].status = "active"]
       /\ wh' = [wh EXCEPT ![s] = After(h, "t_update")]
    /\ UNCHANGED <<envVars, ft, datasets, provider, delivered, orch, sc, clientVars>>

\* second version: update({status: "ringing"})
WebhookRinging(s) ==
    /\ wh[s].pc = "r_update"
    /\ LET h == wh[s] IN
       /\ calls' = [calls EXCEPT ![h.call.id].status = "ringing"]
       /\ wh' = [wh EXCEPT ![s] = After(h, "r_update")]
    /\ UNCHANGED <<envVars, ft, datasets, provider, delivered, orch, sc, clientVars>>

\* second version: update({status: "active"})
WebhookActive(s) ==
    /\ wh[s].pc = "a_update"
    /\ LET h == wh[s] IN
       /\ calls' = [calls EXCEPT ![h.call.id].status = "active"]
       /\ wh' = [wh EXCEPT ![s] = After(h, "a_update")]
    /\ UNCHANGED <<envVars, ft, datasets, provider, delivered, orch, sc, clientVars>>

\* what the provider's /api/call/details answers (the fields the functions read)
NoData == [ok |-> FALSE, transcript |-> NULL, refinedTranscript |-> NULL, refined_transcript |-> NULL, recordingUrl |-> NULL, recording_url |-> NULL, call_recording_url |-> NULL, duration |-> NoNum, call_duration |-> NoNum, status |-> <<>>, call_status |-> <<>>]

\* fetchSubverseCallDetails: null without api key, on a non-2xx answer or on a
\* network error, else the fields picked from the answer
fetchSubverseCallDetails(data) == IF ~apiKey \/ ~data.ok THEN NoDetails ELSE [ok |-> TRUE, transcript |-> OrElse(data.transcript, OrElse(data.refinedTranscript, data.refined_transcript)), refinedTranscript |-> OrElse(data.refinedTranscript, OrElse(data.refined_transcript, data.transcript)), recordingUrl |-> OrElse(data.recordingUrl, data.recording_url), duration |-> IF TruthyNum(data.duration) THEN data.duration ELSE data.call_duration]

\* first version: the fallback fetch of the call details
WebhookFetchDetails(s, data) ==
    /\ wh[s].pc = "c_fetch"
    /\ wh' = [wh EXCEPT ![s] = After([wh[s] EXCEPT !.details = fetchSubverseCallDetails(data)], "c_fetch")]
    /\ UNCHANGED <<envVars, ft, calls, datasets, provider, delivered, orch, sc, clientVars>>

\* updateData of the completion branch: the columns it sets besides status and
\* completed_at (NULL / NoNum: the column is not in the update)
CompletionTranscript(h) == IF ver = 1 THEN (IF Truthy(extractRefinedTranscriptV1(h.payload)) THEN extractRefinedTranscriptV1(h.payload) ELSE IF TruthyId(extractSubverseCallId(h.payload)) /\ h.details.ok THEN OrElse(h.details.refinedTranscript, OrElse(h.details.transcript, NULL)) ELSE NULL) ELSE (IF Truthy(extractRefinedTranscriptV2(h.payload)) THEN extractRefinedTranscriptV2(h.payload) ELSE extractTranscript(h.payload))

CompletionRecording(h) == IF ver = 1 /\ ~Truthy(extractRefinedTranscriptV1(h.payload)) /\ TruthyId(extractSubverseCallId(h.payload)) /\ h.details.ok THEN OrElse(extractRecordingUrl(h.payload), OrElse(h.details.recordingUrl, NULL)) ELSE extractRecordingUrl(h.payload)

CompletionDuration(h) == IF TruthyNum(h.payload.duration) THEN h.payload.duration ELSE IF ver = 1 /\ ~Truthy(extractRefinedTranscriptV1(h.payload)) /\ TruthyId(extractSubverseCallId(h.payload)) /\ h.details.ok /\ TruthyNum(h.details.duration) THEN h.details.duration ELSE NoNum

\* calls.update(updateData).eq("id", call.id) of the completion branch
CompletionUpdate(row, h) == [row EXCEPT !.status = "completed", !.completed_at = now, !.call_duration = IF TruthyNum(CompletionDuration(h)) THEN CompletionDuration(h) ELSE @, !.recording_url = IF Truthy(CompletionRecording(h)) THEN CompletionRecording(h) ELSE @, !.refined_transcript = IF Truthy(CompletionTranscript(h)) THEN CompletionTranscript(h) ELSE @]

WebhookCompletedUpdate(s) ==
    /\ wh[s].pc = "c_update"
    /\ LET h == wh[s] IN
       /\ calls' = [calls EXCEPT ![h.call.id] = CompletionUpdate(@, h)]
       /\ wh' = [wh EXCEPT ![s] = After(h, "c_update")]
    /\ UNCHANGED <<envVars, ft, datasets, provider, delivered, orch, sc, clientVars>>

\* rpc("increment_dataset_counts", {p_dataset_id: resolvedDatasetId, p_successful: 1, p_failed: 0})
WebhookCompletedIncrement(s) ==
    /\ wh[s].pc = "c_incr"
    /\ datasets' = increment_dataset_counts(datasets, resolvedDatasetId(wh[s]), 1, 0)
    /\ wh' = [wh EXCEPT ![s] = After(wh[s], "c_incr")]
    /\ UNCHANGED <<envVars, ft, calls, provider, delivered, orch, sc, clientVars>>

\* calls.update({status: "failed", error_message, completed_at}).eq("id", call.id)
FailureUpdate(row, h) == [row EXCEPT !.status = "failed", !.error_message = FailureMessage(h.payload), !.completed_at = now]

WebhookFailedUpdate(s) ==
    /\ wh[s].pc = "f_update"
    /\ LET h == wh[s] IN
       /\ calls' = [calls EXCEPT ![h.call.id] = FailureUpdate(@, h)]
       /\ wh' = [wh EXCEPT ![s] = After(h, "f_update")]
    /\ UNCHANGED <<envVars, ft, datasets, provider, delivered, orch, sc, clientVars>>

\* rpc("increment_dataset_counts", {p_dataset_id: resolvedDatasetId, p_successful: 0, p_failed: 1})
WebhookFailedIncrement(s) ==
    /\ wh[s].pc = "f_incr"
    /\ datasets' = increment_dataset_counts(datasets, resolvedDatasetId(wh[s]), 0, 1)
    /\ wh' = [wh EXCEPT ![s] = After(wh[s], "f_incr")]
    /\ UNCHANGED <<envVars, ft, calls, provider, delivered, orch, sc, clientVars>>

\* checkAndUpdateDatasetCompletion: the read of the non-terminal calls
checkAndUpdateDatasetCompletionRead(s) ==
    /\ wh[s].pc \in {"c_check", "f_check"}
    /\ wh' = [wh EXCEPT ![s] = After([wh[s] EXCEPT !.remaining = Cardinality(Remaining(resolvedDatasetId(wh[s])))], wh[s].pc)]
    /\ UNCHANGED <<envVars, ft, calls, datasets, provider, delivered, orch, sc, clientVars>>

\* checkAndUpdateDatasetCompletion: the read returns an error; only data is
\* destructured, so remaining is null
checkAndUpdateDatasetCompletionReadFails(s) ==
    /\ wh[s].pc \in {"c_check", "f_check"}
    /\ wh' = [wh EXCEPT ![s] = After([wh[s] EXCEPT !.remaining = NoNum], wh[s].pc)]
    /\ UNCHANGED <<envVars, ft, calls, datasets, provider, delivered, orch, sc, clientVars>>

\* checkAndUpdateDatasetCompletion: the update of the dataset row
checkAndUpdateDatasetCompletionMark(s) ==
    /\ wh[s].pc \in {"c_mark", "f_mark"}
    /\ datasets' = MarkDatasetCompleted(datasets, resolvedDatasetId(wh[s]), now)
    /\ wh' = [wh EXCEPT ![s] = After([wh[s] EXCEPT !.remaining = NoNum], wh[s].pc)]
    /\ UNCHANGED <<envVars, ft, calls, provider, delivered, orch, sc, clientVars>>

\* ------------------------------------------------------------------
\* Time
\* ------------------------------------------------------------------
STUCK_CALL_TIMEOUT_MS == 45 * 1000
\* the clock advances by more than the watchdog's deadline
TickMs == STUCK_CALL_TIMEOUT_MS + 1

Tick ==
    /\ ticks < MaxTicks
    /\ ticks' = ticks + 1
    /\ now' = now + TickMs
    /\ UNCHANGED <<ver, apiKey, ft, calls, datasets, provider, whVars, orch, sc, clientVars>>

\* ------------------------------------------------------------------
\* trigger-calls: the orchestrator
\* ------------------------------------------------------------------
OrchSlots == {1, 2}

IdleOrch == [pc |-> "idle", dataset_id |-> NULL, queue |-> <<>>, i |-> 0, sid |-> NoId, resp |-> 0]

\* every order of the rows of S, whatever their created_at
AnyOrder(S) == {q \in [1..Cardinality(S) -> S] : (\A j, k \in 1..Cardinality(S) : j < k => q[j] # q[k])}

\* the orders `order by created_at asc` may return the rows of S in
Orderings(S) == {q \in [1..Cardinality(S) -> S] : (\A j, k \in 1..Cardinality(S) : j < k => q[j] # q[k] /\ calls[q[j]].created_at <= calls[q[k]].created_at)}

\* a serve that does not look at the key before it starts
OrchInvokedUnchecked(d) == [IdleOrch EXCEPT !.pc = "select", !.dataset_id = d]

\* the request arrives; without SUBVERSE_API_KEY serve throws and answers 500
OrchInvoked(d) == IF apiKey THEN [IdleOrch EXCEPT !.pc = "select", !.dataset_id = d] ELSE [IdleOrch EXCEPT !.pc = "done", !.dataset_id = d, !.resp = 500]

\* select * from calls where dataset_id = d and status = 'queued' order by created_at
OrchSelect(o) ==
    /\ orch[o].pc = "select"
    /\ LET queued == {c \in CallIds : calls[c].dataset_id = orch[o].dataset_id /\ calls[c].status = "queued"} IN
       IF queued = {} THEN orch' = [orch EXCEPT ![o].pc = "done", ![o].resp = 200]
       ELSE \E q \in Orderings(queued) : orch' = [orch EXCEPT ![o].pc = "ringing", ![o].queue = q, ![o].i = 1]
    /\ UNCHANGED <<envVars, ft, calls, datasets, provider, whVars, sc, clientVars>>

OrchCall(o) == orch[o].queue[orch[o].i]

\* Step 1: update({status: "ringing", started_at}).eq("id", call.id)
OrchMarkRinging(o) ==
    /\ orch[o].pc = "ringing"
    /\ calls' = [calls EXCEPT ![OrchCall(o)].status = "ringing", ![OrchCall(o)].started_at = now]
    /\ orch' = [orch EXCEPT ![o].pc = "trigger"]
    /\ UNCHANGED <<envVars, ft, datasets, provider, whVars, sc, clientVars>>

\* Step 1, the store refusing the write: the result of the update is not looked
\* at, so the loop goes on to Step 2 with the row as it was
OrchMarkRingingFails(o) ==
    /\ orch[o].pc = "ringing"
    /\ orch' = [orch EXCEPT ![o].pc = "trigger"]
    /\ UNCHANGED <<envVars, ft, calls, datasets, provider, whVars, sc, clientVars>>

\* Step 2: fetch(SUBVERSE_API_URL); ok: the provider answers 2xx, sid: the call id
\* in its answer (result.callId || result.callSid || result.call_id || null)
OrchTrigger(o, ok, sid) ==
    /\ orch[o].pc = "trigger"
    /\ provider' = [provider EXCEPT ![OrchCall(o)].triggers = @ + 1]
    /\ orch' = [orch EXCEPT ![o].pc = IF ok THEN "active" ELSE "failed", ![o].sid = IF ok THEN sid ELSE NoId]
    /\ UNCHANGED <<envVars, ft, calls, datasets, whVars, sc, clientVars>>

\* a loop that gives up after the first call
OrchStopsAfterFirst(r) == [r EXCEPT !.pc = "done", !.queue = <<>>, !.i = 0, !.sid = NoId, !.resp = 200]

\* the loop goes on to the next call (Step 5, the CALL_DELAY_MS pause, passes
\* before its first write), or serve answers 200
OrchAdvance(r) == IF r.i < Len(r.queue) THEN [r EXCEPT !.pc = "ringing", !.i = @ + 1, !.sid = NoId] ELSE [r EXCEPT !.pc = "done", !.queue = <<>>, !.i = 0, !.sid = NoId, !.resp = 200]

\* Step 4: update({status: "active", call_sid}).eq("id", call.id)
OrchMarkActive(o) ==
    /\ orch[o].pc = "active"
    /\ calls' = [calls EXCEPT ![OrchCall(o)].status = "active", ![OrchCall(o)].call_sid = orch[o].sid]
    /\ orch' = [orch EXCEPT ![o] = OrchAdvance(@)]
    /\ UNCHANGED <<envVars, ft, datasets, provider, whVars, sc, clientVars>>

TriggerErrorMessage == <<"Subverse API error">>

\* catch: update({status: "failed", error_message, completed_at}).eq("id", call.id)
OrchMarkFailed(o) ==
    /\ orch[o].pc = "failed"
    /\ calls' = [calls EXCEPT ![OrchCall(o)].status = "failed", ![OrchCall(o)].error_message = TriggerErrorMessage, ![OrchCall(o)].completed_at = now]
    /\ orch' = [orch EXCEPT ![o].pc = "incr"]
    /\ UNCHANGED <<envVars, ft, datasets, provider, whVars, sc, clientVars>>

\* catch: rpc("increment_dataset_counts", {p_dataset_id: dataset_id, p_successful: 0, p_failed: 1})
OrchIncrementFailed(o) ==
    /\ orch[o].pc = "incr"
    /\ datasets' = increment_dataset_counts(datasets, orch[o].dataset_id, 0, 1)
    /\ orch' = [orch EXCEPT ![o] = OrchAdvance(@)]
    /\ UNCHANGED <<envVars, ft, calls, provider, whVars, sc, clientVars>>

\* ------------------------------------------------------------------
\* stop-call
\* ------------------------------------------------------------------
\* who invoked a stop-call handler: a watchdog job or the emergency stop
StopOrigins == {"wd", "es"}

IdleStop == [pc |-> "idle", sid |-> NoId, awaited |-> FALSE]

StopInvoked(awaited) == [IdleStop EXCEPT !.pc = "read", !.awaited = awaited]

StoppedMessage == <<"Stopped by System (Timeout)">>

\* select("call_sid").eq("id", call_id).single(); the row exists
StopCallRead(k) ==
    /\ sc[k].pc = "read"
    /\ sc' = [sc EXCEPT ![k].sid = calls[k[2]].call_sid, ![k].pc = IF TruthyId(calls[k[2]].call_sid) THEN "cancel" ELSE "update"]
    /\ UNCHANGED <<envVars, ft, calls, datasets, provider, whVars, orch, clientVars>>

\* PUT /api/call/cancel/{call_sid}; whatever the provider answers is only logged
StopCallCancel(k) ==
    /\ sc[k].pc = "cancel"
    /\ provider' = [provider EXCEPT ![k[2]].canceled = TRUE]
    /\ sc' = [sc EXCEPT ![k].pc = "update"]
    /\ UNCHANGED <<envVars, ft, calls, datasets, whVars, orch, clientVars>>

\* the same request when the provider answers an error or cannot be reached: the
\* answer is logged (console.warn / console.error) and serve goes on
StopCallCancelFails(k) ==
    /\ sc[k].pc = "cancel"
    /\ sc' = [sc EXCEPT ![k].pc = "update"]
    /\ UNCHANGED <<envVars, ft, calls, datasets, provider, whVars, orch, clientVars>>

StopCallWrite(row, t) == [row EXCEPT !.status = "failed", !.error_message = StoppedMessage, !.completed_at = t]

\* update({status: 'failed', error_message, completed_at}).eq("id", call_id) for a
\* caller that does not wait for the answer
StopCallUpdate(k) ==
    /\ sc[k].pc = "update"
    /\ ~sc[k].awaited
    /\ calls' = [calls EXCEPT ![k[2]] = StopCallWrite(@, now)]
    /\ sc' = [sc EXCEPT ![k] = IdleStop]
    /\ UNCHANGED <<envVars, ft, datasets, provider, whVars, orch, clientVars>>

\* the same update when the caller awaits the answer
StopCallUpdateAwaited(k) ==
    /\ sc[k].pc = "update"
    /\ sc[k].awaited
    /\ calls' = [calls EXCEPT ![k[2]] = StopCallWrite(@, now)]
    /\ sc' = [sc EXCEPT ![k].pc = "done"]
    /\ UNCHANGED <<envVars, ft, datasets, provider, whVars, orch, clientVars>>


\* the update fails: if (updateError) throw updateError, and serve's catch answers
\* the error
StopCallUpdateFails(k) ==
    /\ sc[k].pc = "update"
    /\ sc' = [sc EXCEPT ![k] = IF sc[k].awaited THEN [@ EXCEPT !.pc = "done"] ELSE IdleStop]
    /\ UNCHANGED <<envVars, ft, calls, datasets, provider, whVars, orch, clientVars>>

\* ------------------------------------------------------------------
\* useDispatch: the client hook
\* ------------------------------------------------------------------
\* what the hook reads of a calls row and of the datasets row it holds
LocalCall(row) == [status |-> row.status, started_at |-> row.started_at, created_at |-> row.created_at, live_transcript |-> row.live_transcript]

LocalDataset(row) == [status |-> row.status]

\* the id of the dataset the hook holds
TheDataset == "d1"

\* 3. Batch Completion Watcher: the effect that runs after every change of calls,
\* dataset.id or isExecuting
BatchCompletionWatcher(u) ==
    IF u.hasDataset /\ u.isExecuting /\ DOMAIN u.calls # {} /\ (\A c \in DOMAIN u.calls : u.calls[c].status \in TERMINAL_STATUSES)
    THEN [u EXCEPT !.isExecuting = FALSE, !.screen = "summary"]
    ELSE u

\* 5. Watchdog Interval: setInterval(reconcileStuckCalls, 5000)
WATCHDOG_INTERVAL_MS == 5000

\* the effects that run after the hook's state has changed from ui to u: the
\* completion watcher, then the interval effect, which clears the interval and,
\* while isExecuting, registers a new one whenever calls, dataset.id or
\* isExecuting has changed (timer: when the interval fires next)
Render(u) ==
    LET w == BatchCompletionWatcher(u) IN
    [w EXCEPT !.timer = IF w.calls = ui.calls /\ w.isExecuting = ui.isExecuting /\ w.hasDataset = ui.hasDataset THEN ui.timer
                        ELSE IF w.isExecuting /\ w.hasDataset THEN now + WATCHDOG_INTERVAL_MS ELSE NoTime]

\* 1. Realtime Calls Subscription: an UPDATE of a calls row of the dataset reaches
\* the hook, which merges the row into its copy
RealtimeCall(c) ==
    /\ ui.hasDataset
    /\ calls[c].dataset_id = TheDataset
    /\ ui.calls[c] # LocalCall(calls[c])
    /\ ui' = Render([ui EXCEPT !.calls[c] = LocalCall(calls[c])])
    /\ UNCHANGED <<envVars, ft, calls, datasets, provider, whVars, orch, sc, sb, wd, es>>

\* 2. Realtime Dataset Subscription
RealtimeDataset ==
    /\ ui.hasDataset
    /\ ui.dataset # LocalDataset(datasets[TheDataset])
    /\ LET u == [ui EXCEPT !.dataset = LocalDataset(datasets[TheDataset])] IN
       ui' = Render(IF datasets[TheDataset].status \in {"completed", "failed"} THEN [u EXCEPT !.isExecuting = FALSE, !.screen = "summary"] ELSE u)
    /\ UNCHANGED <<envVars, ft, calls, datasets, provider, whVars, orch, sc, sb, wd, es>>

\* startBatch: the Start Batch button is shown on the command screen while
\* isExecuting is false
StartBatch ==
    /\ ui.screen = "command" /\ ui.hasDataset /\ ~ui.isExecuting
    /\ sb = "idle"
    /\ ui' = Render([ui EXCEPT !.isExecuting = TRUE, !.isStopped = FALSE])
    /\ sb' = "update"
    /\ UNCHANGED <<envVars, ft, calls, datasets, provider, whVars, orch, sc, wd, es>>

\* startBatch: update({status: 'executing'}).eq('id', dataset.id), then
\* functions.invoke('trigger-calls')
StartBatchUpdate(o) ==
    /\ sb = "update"
    /\ orch[o].pc = "idle"
    /\ datasets' = [datasets EXCEPT ![TheDataset].status = "executing"]
    /\ orch' = [orch EXCEPT ![o] = OrchInvoked(TheDataset)]
    /\ sb' = "invoke"
    /\ UNCHANGED <<envVars, ft, calls, provider, whVars, sc, ui, wd, es>>

\* startBatch: trigger-calls answered 2xx
StartBatchStarted(o) ==
    /\ sb = "invoke"
    /\ orch[o].pc = "done" /\ orch[o].resp = 200
    /\ orch' = [orch EXCEPT ![o] = IdleOrch]
    /\ sb' = "idle"
    /\ UNCHANGED <<envVars, ft, calls, datasets, provider, whVars, sc, ui, wd, es>>

\* startBatch: trigger-calls answered an error; catch sets isExecuting false
StartBatchFailed(o) ==
    /\ sb = "invoke"
    /\ orch[o].pc = "done" /\ orch[o].resp # 200
    /\ orch' = [orch EXCEPT ![o] = IdleOrch]
    /\ sb' = "idle"
    /\ ui' = Render([ui EXCEPT !.isExecuting = FALSE])
    /\ UNCHANGED <<envVars, ft, calls, datasets, provider, whVars, sc, wd, es>>

\* 4. Stuck Call Watchdog

startTime(c) == IF ui.calls[c].started_at # NoTime THEN ui.calls[c].started_at ELSE ui.calls[c].created_at

stuckCalls == {c \in DOMAIN ui.calls : /\ ui.calls[c].status \notin TERMINAL_STATUSES
                                       /\ ui.calls[c].status \in {"queued", "ringing"}
                                       /\ now - startTime(c) > STUCK_CALL_TIMEOUT_MS}

\* reconcileStuckCalls, run by the interval at some time while it is registered:
\* a job per stuck call, each starting with functions.invoke('stop-call')
\* the stuck calls no job of an earlier sweep is still at work on
sweptCalls == {c \in stuckCalls : wd[c] # "stop" /\ sc[<<"wd", c>>].pc = "idle"}

reconcileStuckCallsJobs ==
    /\ ui.timer # NoTime
    /\ ui.hasDataset /\ ui.isExecuting
    /\ sweptCalls # {}
    /\ wd' = [c \in DOMAIN wd |-> IF c \in sweptCalls THEN "stop" ELSE wd[c]]
    /\ sc' = [k \in DOMAIN sc |-> IF k[1] = "wd" /\ k[2] \in sweptCalls THEN StopInvoked(TRUE) ELSE sc[k]]
    /\ UNCHANGED <<envVars, ft, calls, datasets, provider, whVars, orch, sb, es>>

reconcileStuckCalls ==
    /\ reconcileStuckCallsJobs
    /\ ui' = ui

TimeoutMessage == <<"Timeout (45s Limit)">>

\* a job that leaves the row as stop-call wrote it
WatchdogKeeps(row, t) == row

\* {status: 'failed', error_message: 'Timeout (45s Limit)', completed_at}
WatchdogWrite(row, t) == [row EXCEPT !.status = "failed", !.error_message = TimeoutMessage, !.completed_at = t]

\* the job's second step once stop-call has answered: update({status: 'failed',
\* error_message: 'Timeout (45s Limit)', completed_at}).eq('id', call.id)
WatchdogForceFailed(c) ==
    /\ wd[c] = "stop"
    /\ sc[<<"wd", c>>].pc = "done"
    /\ calls' = [calls EXCEPT ![c] = WatchdogWrite(@, now)]
    /\ sc' = [sc EXCEPT ![<<"wd", c>>] = IdleStop]
    /\ wd' = [wd EXCEPT ![c] = "idle"]
    /\ UNCHANGED <<envVars, ft, datasets, provider, whVars, orch, ui, sb, es>>


\* the job's update fails: if (error) throw error, and the job's catch logs it
\* (wd "logged": the job for the call has ended that way)
WatchdogForceFails(c) ==
    /\ wd[c] = "stop"
    /\ sc[<<"wd", c>>].pc = "done"
    /\ sc' = [sc EXCEPT ![<<"wd", c>>] = IdleStop]
    /\ wd' = [wd EXCEPT ![c] = "logged"]
    /\ UNCHANGED <<envVars, ft, calls, datasets, provider, whVars, orch, ui, sb, es>>

\* ------------------------------------------------------------------
\* Emergency stop: LiveCommandCenter.handleEmergencyStop, then the hook's
\* emergencyStop
\* ------------------------------------------------------------------
IdleStopper == [pc |-> "idle", statuses |-> <<>>, datasetDone |-> FALSE, callsDone |-> FALSE]

\* the calls of the render in which the button was clicked
ClickedWith(r, st) == {c \in DOMAIN r.statuses : r.statuses[c] \in st}

\* emergencyStop up to its Promise.all: setIsStopped(true), stop-call fired for the
\* ringing and active calls without awaiting, and the two updates sent
emergencyStop(r) == [r EXCEPT !.pc = "writes"]

emergencyStopFires(r) == [k \in DOMAIN sc |-> IF k[1] = "es" /\ k[2] \in ClickedWith(r, {"ringing", "active"}) THEN StopInvoked(FALSE) ELSE sc[k]]

\* the Emergency Stop button, shown on the command screen while isExecuting:
\* stop-call is invoked for every active call and awaited
handleEmergencyStop ==
    /\ ui.screen = "command" /\ ui.hasDataset /\ ui.isExecuting
    /\ es.pc = "idle"
    /\ \A c \in CallIds : sc[<<"es", c>>].pc = "idle"
    /\ LET r == [IdleStopper EXCEPT !.statuses = [c \in DOMAIN ui.calls |-> ui.calls[c].status]] IN
       IF ClickedWith(r, {"active"}) = {}
       THEN /\ es' = emergencyStop(r)
            /\ sc' = emergencyStopFires(r)
            /\ ui' = [ui EXCEPT !.isStopped = TRUE]
       ELSE /\ es' = [r EXCEPT !.pc = "stopping"]
            /\ sc' = [k \in DOMAIN sc |-> IF k[1] = "es" /\ k[2] \in ClickedWith(r, {"active"}) THEN StopInvoked(TRUE) ELSE sc[k]]
            /\ ui' = ui
    /\ UNCHANGED <<envVars, ft, calls, datasets, provider, whVars, orch, sb, wd>>

\* every awaited stop-call has answered: onEmergencyStop()
handleEmergencyStopProceed ==
    /\ es.pc = "stopping"
    /\ \A c \in ClickedWith(es, {"active"}) : sc[<<"es", c>>].pc = "done"
    /\ es' = emergencyStop(es)
    /\ sc' = emergencyStopFires(es)
    /\ ui' = [ui EXCEPT !.isStopped = TRUE]
    /\ UNCHANGED <<envVars, ft, calls, datasets, provider, whVars, orch, sb, wd>>

\* after both updates of the Promise.all: setIsExecuting(false)
emergencyStopSettled(r) == IF r.datasetDone /\ r.callsDone THEN [r EXCEPT !.pc = "idle"] ELSE r

emergencyStopUi(r) == IF r.datasetDone /\ r.callsDone THEN Render([ui EXCEPT !.isExecuting = FALSE]) ELSE ui

\* datasets.update({status: 'failed', completed_at}).eq('id', dataset.id)
emergencyStopDataset ==
    /\ es.pc = "writes" /\ ~es.datasetDone
    /\ datasets' = [datasets EXCEPT ![TheDataset].status = "failed", ![TheDataset].completed_at = now]
    /\ es' = emergencyStopSettled([es EXCEPT !.datasetDone = TRUE])
    /\ ui' = emergencyStopUi([es EXCEPT !.datasetDone = TRUE])
    /\ UNCHANGED <<envVars, ft, calls, provider, whVars, orch, sc, sb, wd>>

EmergencyMessage == <<"Emergency stop triggered">>

\* calls.update({status: 'canceled', error_message}).eq('dataset_id', dataset.id)
\*      .in('status', ['queued', 'ringing', 'active'])
emergencyStopCalls ==
    /\ es.pc = "writes" /\ ~es.callsDone
    /\ calls' = [c \in DOMAIN calls |-> IF calls[c].dataset_id = TheDataset /\ calls[c].status \in {"queued", "ringing", "active"} THEN [calls[c] EXCEPT !.status = "canceled", !.error_message = EmergencyMessage] ELSE calls[c]]
    /\ es' = emergencyStopSettled([es EXCEPT !.callsDone = TRUE])
    /\ ui' = emergencyStopUi([es EXCEPT !.callsDone = TRUE])
    /\ UNCHANGED <<envVars, ft, datasets, provider, whVars, orch, sc, sb, wd>>


\* ------------------------------------------------------------------
\* fetch-transcript
\* ------------------------------------------------------------------
statusMap == (<<"r", "i", "n", "g", "i", "n", "g">> :> "ringing") @@ (<<"i", "n", "_", "p", "r", "o", "g", "r", "e", "s", "s">> :> "active") @@ (<<"i", "n", "-", "p", "r", "o", "g", "r", "e", "s", "s">> :> "active") @@ (<<"a", "c", "t", "i", "v", "e">> :> "active") @@ (<<"c", "o", "n", "n", "e", "c", "t", "e", "d">> :> "active") @@ (<<"c", "o", "m", "p", "l", "e", "t", "e", "d">> :> "completed") @@ (<<"e", "n", "d", "e", "d">> :> "completed") @@ (<<"c", "a", "l", "l", "_", "f", "i", "n", "i", "s", "h", "e", "d">> :> "completed") @@ (<<"f", "a", "i", "l", "e", "d">> :> "failed") @@ (<<"n", "o", "_", "a", "n", "s", "w", "e", "r">> :> "failed") @@ (<<"b", "u", "s", "y">> :> "failed") @@ (<<"c", "a", "n", "c", "e", "l", "e", "d">> :> "canceled")

\* statusMap[subverseStatus.toLowerCase()] || subverseStatus; a status outside the
\* table passes through as it is, which the model writes "unmapped"
mapSubverseStatus(subverseStatus) == IF toLowerCase(subverseStatus) \in DOMAIN statusMap THEN statusMap[toLowerCase(subverseStatus)] ELSE "unmapped"

NoUpdate == [refined_transcript |-> NULL, recording_url |-> NULL, call_duration |-> NoNum, status |-> NULL, completed_at |-> FALSE]

FetchSlots == {1}

\* the JSON body of an answer: {transcript, recording_url, source}
NoBody == [transcript |-> NULL, recording_url |-> NULL, source |-> NULL]

IdleFetch == [pc |-> "idle", call |-> NoRow, status |-> NULL, call_sid |-> NoId, updateData |-> NoUpdate, resp |-> 0, body |-> NoBody]

\* an authenticated request for a call by its id
FetchTranscriptReceive(f, c) ==
    /\ ft.count < MaxFetches
    /\ ft.h[f].pc = "idle"
    /\ ft' = [ft EXCEPT !.count = @ + 1, !.h[f] = [IdleFetch EXCEPT !.pc = "read", !.call = c]]
    /\ UNCHANGED <<envVars, calls, datasets, provider, whVars, orch, sc, clientVars>>

FetchRespond(r, code) == [IdleFetch EXCEPT !.resp = code]

\* {success: true, transcript: call.refined_transcript, recording_url:
\* call.recording_url, source: "database"}
FetchRespondStored(row) == [IdleFetch EXCEPT !.resp = 200, !.body = [transcript |-> row.refined_transcript, recording_url |-> row.recording_url, source |-> "database"]]

\* {success: true, transcript, recording_url: recordingUrl, duration, source: "subverse_api"}
FetchRespondFetched(u) == [IdleFetch EXCEPT !.resp = 200, !.body = [transcript |-> u.refined_transcript, recording_url |-> u.recording_url, source |-> "subverse_api"]]

\* select("id, call_sid, refined_transcript, recording_url, status").eq("id", call_id),
\* then the early answers: the stored transcript, 400 without call_sid, 500
\* without the api key
FetchTranscriptRead(f) ==
    /\ ft.h[f].pc = "read"
    /\ LET row == calls[ft.h[f].call] IN
       ft' = [ft EXCEPT !.h[f] = IF Truthy(row.refined_transcript) THEN FetchRespondStored(row)
                                 ELSE IF ~TruthyId(row.call_sid) THEN FetchRespond(@, 400)
                                 ELSE IF ~apiKey THEN FetchRespond(@, 500)
                                 ELSE [@ EXCEPT !.pc = "details", !.status = row.status, !.call_sid = row.call_sid]]
    /\ UNCHANGED <<envVars, calls, datasets, provider, whVars, orch, sc, clientVars>>

subverseStatus(data) == IF data.status # <<>> THEN data.status ELSE data.call_status

mappedStatus(data) == IF subverseStatus(data) # <<>> THEN mapSubverseStatus(subverseStatus(data)) ELSE NULL

\* updateData as built from the provider's answer and the row read before
updateDataOf(data, status) ==
    [refined_transcript |-> OrElse(data.refinedTranscript, OrElse(data.refined_transcript, data.transcript)),
     recording_url |-> OrElse(data.recordingUrl, OrElse(data.recording_url, data.call_recording_url)),
     call_duration |-> IF TruthyNum(data.duration) THEN data.duration ELSE IF TruthyNum(data.call_duration) THEN data.call_duration ELSE NoNum,
     status |-> IF Truthy(mappedStatus(data)) /\ mappedStatus(data) # status THEN mappedStatus(data) ELSE NULL,
     completed_at |-> Truthy(mappedStatus(data)) /\ mappedStatus(data) # status /\ mappedStatus(data) \in {"completed", "failed", "canceled"}]

\* GET /api/call/details/{call_sid}: a non-2xx answer is passed on, an answer
\* with nothing to store is answered 200 without an update
FetchTranscriptDetails(f, data) ==
    /\ ft.h[f].pc = "details"
    /\ ft' = [ft EXCEPT !.h[f] = IF ~data.ok THEN FetchRespond(@, 502)
                                 ELSE IF updateDataOf(data, ft.h[f].status) = NoUpdate THEN FetchRespondFetched(NoUpdate)
                                 ELSE [@ EXCEPT !.pc = "update", !.updateData = updateDataOf(data, ft.h[f].status)]]
    /\ UNCHANGED <<envVars, calls, datasets, provider, whVars, orch, sc, clientVars>>

\* an update that stores the transcript and leaves the recording out
FetchWriteTranscriptOnly(row, u, t) == [row EXCEPT !.refined_transcript = IF Truthy(u.refined_transcript) THEN u.refined_transcript ELSE @]

FetchWrite(row, u, t) ==
    [row EXCEPT !.refined_transcript = IF Truthy(u.refined_transcript) THEN u.refined_transcript ELSE @,
                !.recording_url = IF Truthy(u.recording_url) THEN u.recording_url ELSE @,
                !.call_duration = IF TruthyNum(u.call_duration) THEN u.call_duration ELSE @,
                !.status = IF Truthy(u.status) THEN u.status ELSE @,
                !.completed_at = IF u.completed_at THEN t ELSE @]

\* update(updateData).eq("id", call_id)
FetchTranscriptUpdate(f) ==
    /\ ft.h[f].pc = "update"
    /\ calls' = [calls EXCEPT ![ft.h[f].call] = FetchWrite(@, ft.h[f].updateData, now)]
    /\ ft' = [ft EXCEPT !.h[f] = FetchRespondFetched(ft.h[f].updateData)]
    /\ UNCHANGED <<envVars, datasets, provider, whVars, orch, sc, clientVars>>


\* ------------------------------------------------------------------
\* Inputs
\* ------------------------------------------------------------------
EvHold == <<"c","a","l","l",".","h","o","l","d">>

\* how a payload names its call: the internal id echoed in metadata (with the
\* dataset id the orchestrator sent along), the provider's call id alone, a
\* uuid-shaped provider id, an id no row has, or nothing
IdentityOf(shape, c) == CASE shape = "metadata" -> [NoPayload EXCEPT !.metadata_call_id = Uuid(c), !.metadata_dataset_id = TheDataset, !.callId = Sid(c)] [] shape = "callId" -> [NoPayload EXCEPT !.callId = Sid(c)] [] shape = "call_id" -> [NoPayload EXCEPT !.call_id = SidUuid(c)] [] shape = "none" -> NoPayload [] OTHER -> [NoPayload EXCEPT !.metadata_call_id = UnknownUuid]

ContentOf(p, shape) == CASE shape = "refined" -> [p EXCEPT !.refinedTranscript = "hello", !.duration = 30, !.recordingUrl = "rec1"] [] shape = "raw" -> [p EXCEPT !.transcript = "bye"] [] OTHER -> p

PayloadsOf(identities, contents, events) == {[ContentOf(IdentityOf(i, c), k) EXCEPT !.event = e] : i \in identities, c \in CallIds, k \in contents, e \in events}

\* answers of the provider's details endpoint
Ended == <<"E","n","d","e","d">>
InProgress == <<"i","n","_","p","r","o","g","r","e","s","s">>
Canceled == <<"c","a","n","c","e","l","e","d">>
ProviderAnswers == {NoData, [NoData EXCEPT !.ok = TRUE], [NoData EXCEPT !.ok = TRUE, !.transcript = "late", !.recording_url = "rec2", !.call_duration = 45, !.status = Ended], [NoData EXCEPT !.ok = TRUE, !.refined_transcript = "early", !.call_status = InProgress], [NoData EXCEPT !.ok = TRUE, !.status = Canceled]}

\* ------------------------------------------------------------------
\* The system
\* ------------------------------------------------------------------
\* after initializeDataset: the dataset approved, its calls queued, the hook on
\* the command screen holding both
Initialized(names) ==
    /\ now = 0 /\ ticks = 0
    /\ calls = [c \in names |-> NewCall(TheDataset)]
    /\ datasets = [d \in DatasetIds |-> NewDataset(Cardinality(names))]
    /\ provider = [c \in names |-> [triggers |-> 0, canceled |-> FALSE]]
    /\ wh = [s \in WebhookSlots |-> IdleHandler] /\ delivered = <<>>
    /\ orch = [o \in OrchSlots |-> IdleOrch]
    /\ sc = [k \in StopOrigins \X names |-> IdleStop]
    /\ ft = [count |-> 0, h |-> [f \in FetchSlots |-> IdleFetch]]
    /\ ui = [screen |-> "command", hasDataset |-> TRUE, dataset |-> LocalDataset(NewDataset(Cardinality(names))), isExecuting |-> FALSE, isStopped |-> FALSE, timer |-> NoTime, calls |-> [c \in names |-> LocalCall(NewCall(TheDataset))]]
    /\ sb = "idle"
    /\ wd = [c \in names |-> "idle"]
    /\ es = IdleStopper

\* the orchestrator has placed every call and answered: the calls active with
\* the provider's id in call_sid (shape: uuid-like or opaque), the dataset executing
Placed(names, shape) ==
    /\ now = 0 /\ ticks = 0
    /\ calls = [c \in names |-> [NewCall(TheDataset) EXCEPT !.status = "active", !.started_at = 0, !.call_sid = IF shape = "uuid" THEN SidUuid(c) ELSE Sid(c)]]
    /\ datasets = [d \in DatasetIds |-> [NewDataset(Cardinality(names)) EXCEPT !.status = "executing"]]
    /\ provider = [c \in names |-> [triggers |-> 1, canceled |-> FALSE]]
    /\ wh = [s \in WebhookSlots |-> IdleHandler] /\ delivered = <<>>
    /\ orch = [o \in OrchSlots |-> IdleOrch]
    /\ sc = [k \in StopOrigins \X names |-> IdleStop]
    /\ ft = [count |-> 0, h |-> [f \in FetchSlots |-> IdleFetch]]
    /\ ui = [screen |-> "command", hasDataset |-> TRUE, dataset |-> [status |-> "executing"], isExecuting |-> TRUE, isStopped |-> FALSE, timer |-> WATCHDOG_INTERVAL_MS, calls |-> [c \in names |-> LocalCall(calls[c])]]
    /\ sb = "idle"
    /\ wd = [c \in names |-> "idle"]
    /\ es = IdleStopper

\* ------------------------------------------------------------------
\* A batch run: startBatch, the orchestrator, the provider's webhooks for the
\* calls, the watchdog
\* ------------------------------------------------------------------
Init ==
    /\ ver \in {1, 2}
    /\ apiKey = TRUE
    /\ Initialized({CallNames[k] : k \in 1..MaxCalls})

WebhookTerminalStep(s) ==
    \/ WebhookFindCall(s)
    \/ WebhookCompletedUpdate(s)
    \/ WebhookCompletedIncrement(s)
    \/ WebhookFailedUpdate(s)
    \/ WebhookFailedIncrement(s)
    \/ checkAndUpdateDatasetCompletionRead(s)
    \/ checkAndUpdateDatasetCompletionMark(s)

OrchStep(o) ==
    \/ OrchSelect(o)
    \/ OrchMarkRinging(o)
    \/ \E ok \in BOOLEAN : OrchTrigger(o, ok, Sid(OrchCall(o)))
    \/ OrchMarkActive(o)
    \/ OrchMarkFailed(o)
    \/ OrchIncrementFailed(o)

RealtimeStep ==
    \/ \E c \in CallIds : RealtimeCall(c)
    \/ RealtimeDataset

StartBatchStep ==
    \/ StartBatch
    \/ StartBatchUpdate(1)
    \/ StartBatchStarted(1)

WatchdogStep ==
    \/ reconcileStuckCalls
    \/ \E c \in CallIds : StopCallRead(<<"wd", c>>)
    \/ \E c \in CallIds : StopCallCancel(<<"wd", c>>)
    \/ \E c \in CallIds : StopCallUpdateAwaited(<<"wd", c>>)
    \/ \E c \in CallIds : WatchdogForceFailed(c)

\* the provider reports the end of a call it was asked to place
ProviderDelivers(s, p) ==
    /\ provider[extractCallId(p).v].triggers > 0
    /\ WebhookReceive(s, p)

BatchPayloads == PayloadsOf({"metadata"}, {"refined"}, {EvCompleted, EvFailed})

Next ==
    \/ \E p \in BatchPayloads : ProviderDelivers(1, p)
    \/ WebhookTerminalStep(1)
    \/ OrchStep(1)
    \/ RealtimeStep
    \/ StartBatchStep
    \/ WatchdogStep
    \/ Tick

Spec == Init /\ [][Next]_vars


\* ------------------------------------------------------------------
\* The webhook alone: deliveries handled one after the other, for calls the
\* orchestrator has placed
\* ------------------------------------------------------------------
InitWebhook ==
    /\ ver \in {1, 2}
    /\ apiKey = TRUE
    /\ \/ Placed({CallNames[k] : k \in 1..MaxCalls}, "opaque")
       \/ Placed({CallNames[k] : k \in 1..MaxCalls}, "uuid")

WebhookStep(s) ==
    \/ WebhookFindCall(s)
    \/ WebhookFindCallBySid(s)
    \/ WebhookTranscript(s)
    \/ WebhookRinging(s)
    \/ WebhookActive(s)
    \/ \E data \in ProviderAnswers : WebhookFetchDetails(s, data)
    \/ WebhookCompletedUpdate(s)
    \/ WebhookCompletedIncrement(s)
    \/ WebhookFailedUpdate(s)
    \/ WebhookFailedIncrement(s)
    \/ checkAndUpdateDatasetCompletionRead(s)
    \/ checkAndUpdateDatasetCompletionMark(s)

EventKinds == {EvRinging, EvAnswered, EvTranscript, EvCompleted, EvCallFinished, EvFailed, EvHold}

WebhookPayloads == PayloadsOf({"metadata", "call_id", "unknown", "none"}, {"refined", "raw", "bare"}, EventKinds)

NextWebhook ==
    \/ \E p \in WebhookPayloads : WebhookReceive(1, p)
    \/ WebhookStep(1)
    \/ Tick

SpecWebhook == InitWebhook /\ [][NextWebhook]_vars


\* the row findCall resolves a payload to, as a function of the store
TargetOf(p) == LET id == extractCallId(p) IN IF ~TruthyId(id) THEN NoRow ELSE IF uuidRegexTest(id) /\ CallById(id) # NoRow THEN CallById(id) ELSE CallBySid(id)

\* a completion event, as the deployed version matches it
IsCompletion(p) == IF ver = 1 THEN SomeEqual(COMPLETION_EVENTS, EventTypeOf(p)) ELSE SomeIncluded(COMPLETION_EVENTS, EventTypeOf(p))

\* the same completion event for one call has been delivered twice
Redelivered == Len(delivered) = 2 /\ delivered[1] = delivered[2] /\ IsCompletion(delivered[1]) /\ TargetOf(delivered[1]) # NoRow

\* the state the redelivered completion event leaves once the second delivery
\* is answered
RedeliveredOnce == Redelivered /\ wh[1].pc = "idle" =>
    /\ calls[TargetOf(delivered[1])].status = "completed"
    /\ datasets[TheDataset].successful_calls = 1
    /\ datasets[TheDataset].failed_calls = 0
    /\ wh[1].resp.status = 200

TerminalFields(row) == <<row.status, row.completed_at, row.error_message, row.call_duration, row.recording_url, row.refined_transcript>>

\* C2: once a call is completed, failed or canceled, no step of a webhook
\* handler, whatever its event, changes the call's status, completed_at,
\* error_message, call_duration, recording_url or refined_transcript.
C2_TerminalSticky == [][\A c \in CallIds : IsTerminal(calls[c].status) => TerminalFields(calls'[c]) = TerminalFields(calls[c])]_vars


\* ------------------------------------------------------------------
\* The three-call scenario: the orchestrator triggers A, B and C, the provider
\* reports A completed, then B failed, and nothing for C
\* ------------------------------------------------------------------
ScenarioCalls == {"A", "B", "C"}

InitScenario ==
    /\ ver \in {1, 2}
    /\ apiKey = TRUE
    /\ Initialized(ScenarioCalls)

ScenarioEvents == <<[ContentOf(IdentityOf("metadata", "A"), "refined") EXCEPT !.event = EvCompleted], [ContentOf(IdentityOf("metadata", "B"), "bare") EXCEPT !.event = EvFailed]>>

ScenarioDelivers(s) ==
    /\ Len(delivered) < Len(ScenarioEvents)
    /\ ProviderDelivers(s, ScenarioEvents[Len(delivered) + 1])

\* the rows come back in the order they were inserted in, A first, and the
\* provider accepts every call
InsertionOrder(q) == \A j, k \in 1..Len(q) : j < k => (CHOOSE m \in 1..Len(CallNames) : CallNames[m] = q[j]) < (CHOOSE m \in 1..Len(CallNames) : CallNames[m] = q[k])

ScenarioOrch(o) ==
    \/ OrchSelect(o) /\ InsertionOrder(orch'[o].queue)
    \/ OrchMarkRinging(o)
    \/ OrchTrigger(o, TRUE, Sid(OrchCall(o)))
    \/ OrchMarkActive(o)

\* the hook has received every change of the rows it holds
Synced == ui.dataset = LocalDataset(datasets[TheDataset]) /\ \A c \in CallIds : ui.calls[c] = LocalCall(calls[c])

\* the deadline passes for C alone: A and B have been placed by then and C has
\* left the queue
ScenarioTick ==
    /\ \A c \in {"A", "B"} : calls[c].status \notin {"queued", "ringing"}
    /\ calls["C"].status # "queued"
    /\ Tick

\* in the scenario the realtime notifications arrive before anything else happens
ScenarioStep ==
    \/ ScenarioDelivers(1)
    \/ WebhookTerminalStep(1)
    \/ ScenarioOrch(1)
    \/ StartBatchStep
    \/ WatchdogStep
    \/ ScenarioTick

NextScenario ==
    \/ RealtimeStep
    \/ Synced /\ ScenarioStep

SpecScenario == InitScenario /\ [][NextScenario]_vars


\* no handler, job or client operation is running
Quiescent ==
    /\ \A s \in WebhookSlots : wh[s].pc = "idle"
    /\ \A o \in OrchSlots : orch[o].pc = "idle"
    /\ \A k \in DOMAIN sc : sc[k].pc = "idle"
    /\ \A f \in FetchSlots : ft.h[f].pc = "idle"
    /\ \A c \in CallIds : wd[c] = "idle"
    /\ sb = "idle" /\ es.pc = "idle"

AllTerminal(d) == \A c \in CallIds : calls[c].dataset_id = d => IsTerminal(calls[c].status)

\* C3: once every call of a batch is terminal, whichever of the webhook, the
\* watchdog and the orchestrator's trigger failure made it so, and nothing is
\* running any more, the batch's status is completed.
C3_BatchCompletes == \A d \in DatasetIds : Quiescent /\ datasets[d].status = "executing" => ~AllTerminal(d)

\* C4: successful_calls + failed_calls never exceeds total_calls and equals it
\* when the batch is completed.
C4_CountersBounded == \A d \in DatasetIds :
    /\ datasets[d].successful_calls + datasets[d].failed_calls <= datasets[d].total_calls
    /\ datasets[d].status = "completed" => datasets[d].successful_calls + datasets[d].failed_calls = datasets[d].total_calls

\* the scenario has run to its end: both events handled, the deadline passed,
\* the hook up to date and nothing left for the watchdog
ScenarioDone ==
    /\ Len(delivered) = Len(ScenarioEvents)
    /\ ticks = MaxTicks
    /\ Quiescent /\ Synced
    /\ \A c \in CallIds : provider[c].triggers = 1
    /\ ~(ui.isExecuting /\ stuckCalls # {})

\* C6: at the end of the scenario A is completed, B failed, C failed by the
\* watchdog's timeout, and the batch is completed with successful_calls = 1 and
\* failed_calls = 2.
C6_ThreeCallScenario == ScenarioDone =>
    /\ calls["A"].status = "completed"
    /\ calls["B"].status = "failed"
    /\ calls["C"].status = "failed" /\ calls["C"].error_message = TimeoutMessage
    /\ datasets[TheDataset].successful_calls = 1
    /\ datasets[TheDataset].failed_calls = 2
    /\ datasets[TheDataset].status = "completed"


\* ------------------------------------------------------------------
\* Emergency stop during a batch of two calls
\* ------------------------------------------------------------------
InitStop ==
    /\ ver \in {1, 2}
    /\ apiKey = TRUE
    /\ Initialized({"A", "B"})

EmergencyStep ==
    \/ handleEmergencyStop
    \/ handleEmergencyStopProceed
    \/ emergencyStopDataset
    \/ emergencyStopCalls
    \/ \E c \in CallIds : StopCallRead(<<"es", c>>)
    \/ \E c \in CallIds : StopCallCancel(<<"es", c>>)
    \/ \E c \in CallIds : StopCallUpdate(<<"es", c>>)
    \/ \E c \in CallIds : StopCallUpdateAwaited(<<"es", c>>)

NextStop ==
    \/ RealtimeStep
    \/ Synced /\ StartBatchStep
    \/ Synced /\ ScenarioOrch(1)
    \/ Synced /\ EmergencyStep

SpecStop == InitStop /\ [][NextStop]_vars

\* the emergency stop clicked while A was active and B queued has finished
StoppedWithActiveAndQueued ==
    /\ es.pc = "idle" /\ es.datasetDone /\ es.callsDone
    /\ es.statuses = [c \in {"A", "B"} |-> IF c = "A" THEN "active" ELSE "queued"]
    /\ Quiescent

\* C7: after an emergency stop issued while A is active and B is queued, A and B
\* are canceled, the batch is completed or failed, and failed_calls counts both.
C7_EmergencyStopCancels == StoppedWithActiveAndQueued =>
    /\ calls["A"].status = "canceled" /\ calls["B"].status = "canceled"
    /\ datasets[TheDataset].status \in {"completed", "failed"}
    /\ datasets[TheDataset].failed_calls = 2

\* C8: a call's completed_at is set exactly when its status is completed, failed
\* or canceled.
C8_CompletedAtIffTerminal == \A c \in CallIds : calls[c].completed_at # NoTime <=> IsTerminal(calls[c].status)


\* ------------------------------------------------------------------
\* Two webhook handlers running at once
\* ------------------------------------------------------------------
RacePayloads == PayloadsOf({"metadata"}, {"refined", "raw"}, {EvCompleted, EvFailed})

NextRace ==
    \/ \E s \in WebhookSlots, p \in RacePayloads : WebhookReceive(s, p)
    \/ \E s \in WebhookSlots : WebhookTerminalStep(s)
    \/ Tick

SpecRace == InitWebhook /\ [][NextRace]_vars

\* the calls the deliveries so far were about
Targets == {TargetOf(delivered[k]) : k \in 1..Len(delivered)} \ {NoRow}

\* C10: however the reads and writes of two handlers of terminal events for the
\* same call interleave, every call adds at most 1 to successful_calls +
\* failed_calls.
C10_OneIncrementPerCall == datasets[TheDataset].successful_calls + datasets[TheDataset].failed_calls <= Cardinality(Targets)

\* ------------------------------------------------------------------
\* The transcript fetch next to the webhook
\* ------------------------------------------------------------------
FetchStep(f) ==
    \/ \E c \in CallIds : FetchTranscriptReceive(f, c)
    \/ FetchTranscriptRead(f)
    \/ \E data \in ProviderAnswers : FetchTranscriptDetails(f, data)
    \/ FetchTranscriptUpdate(f)

FetchPayloads == PayloadsOf({"metadata"}, {"refined", "bare"}, {EvCompleted, EvFailed})

NextFetch ==
    \/ \E p \in FetchPayloads : WebhookReceive(1, p)
    \/ WebhookTerminalStep(1)
    \/ \E data \in ProviderAnswers : WebhookFetchDetails(1, data)
    \/ FetchStep(1)
    \/ Tick

SpecFetch == InitWebhook /\ [][NextFetch]_vars

\* C9: a refined_transcript that is set is never changed by a later step.
C9_TranscriptWrittenOnce == [][\A c \in CallIds : calls[c].refined_transcript # NULL => calls'[c].refined_transcript = calls[c].refined_transcript]_vars


\* ------------------------------------------------------------------
\* The watchdog against the clock: A is placed and talking, the trigger request
\* for B is slow to return
\* ------------------------------------------------------------------
\* the orchestrator has placed A at 0, has marked B ringing after CALL_DELAY_MS and
\* waits for the provider's answer to the trigger request for B; the client has
\* seen both writes and its interval was registered when it saw the second
InitWatchdog ==
    /\ ver = 2
    /\ apiKey = TRUE
    /\ now = TickStep /\ ticks = 0
    /\ calls = [c \in {"A", "B"} |-> IF c = "A" THEN [NewCall(TheDataset) EXCEPT !.status = "active", !.started_at = 0, !.call_sid = Sid(c)]
                                                ELSE [NewCall(TheDataset) EXCEPT !.status = "ringing", !.started_at = TickStep]]
    /\ datasets = [d \in DatasetIds |-> [NewDataset(2) EXCEPT !.status = "executing"]]
    /\ provider = [c \in {"A", "B"} |-> [triggers |-> IF c = "A" THEN 1 ELSE 0, canceled |-> FALSE]]
    /\ wh = [s \in WebhookSlots |-> IdleHandler] /\ delivered = <<>>
    /\ orch = [o \in OrchSlots |-> IF o = 1 THEN [IdleOrch EXCEPT !.pc = "trigger", !.dataset_id = TheDataset, !.queue = <<"A", "B">>, !.i = 2] ELSE IdleOrch]
    /\ sc = [k \in StopOrigins \X {"A", "B"} |-> IdleStop]
    /\ ft = [count |-> 0, h |-> [f \in FetchSlots |-> IdleFetch]]
    /\ ui = [screen |-> "command", hasDataset |-> TRUE, dataset |-> [status |-> "executing"], isExecuting |-> TRUE, isStopped |-> FALSE, timer |-> now + WATCHDOG_INTERVAL_MS, calls |-> [c \in {"A", "B"} |-> LocalCall(calls[c])]]
    /\ sb = "idle"
    /\ wd = [c \in {"A", "B"} |-> "idle"]
    /\ es = IdleStopper

\* time passes, but not past the moment the interval fires next
TimedTick ==
    /\ now < Horizon
    /\ ui.timer = NoTime \/ now < ui.timer
    /\ now' = IF ui.timer # NoTime /\ ui.timer < now + TickStep THEN ui.timer ELSE now + TickStep
    /\ UNCHANGED <<ver, apiKey, ticks, ft, calls, datasets, provider, whVars, orch, sc, clientVars>>

\* the interval fires and reconcileStuckCalls starts its jobs
WatchdogIntervalSweeps ==
    /\ now = ui.timer
    /\ reconcileStuckCallsJobs
    /\ ui' = [ui EXCEPT !.timer = now + WATCHDOG_INTERVAL_MS]

\* the interval fires and reconcileStuckCalls finds nothing to start
WatchdogIntervalIdle ==
    /\ ui.timer # NoTime /\ now = ui.timer
    /\ ~ENABLED reconcileStuckCallsJobs
    /\ ui' = [ui EXCEPT !.timer = now + WATCHDOG_INTERVAL_MS]
    /\ UNCHANGED <<envVars, ft, calls, datasets, provider, whVars, orch, sc, sb, wd, es>>

\* a watchdog job for a call that has no call_sid yet: stop-call, then the
\* client's own update
WatchdogJobStep ==
    \/ \E c \in CallIds : StopCallRead(<<"wd", c>>)
    \/ \E c \in CallIds : StopCallUpdateAwaited(<<"wd", c>>)
    \/ \E c \in CallIds : WatchdogForceFailed(c)

\* the provider reports what A says
TalkPayloads == {[ContentOf(IdentityOf("metadata", "A"), "raw") EXCEPT !.event = EvTranscript]}

NextWatchdog ==
    \/ \E c \in CallIds : RealtimeCall(c)
    \/ Synced /\ \E p \in TalkPayloads : ProviderDelivers(1, p)
    \/ Synced /\ WebhookFindCall(1)
    \/ Synced /\ WebhookTranscript(1)
    \/ Synced /\ WatchdogIntervalSweeps
    \/ Synced /\ WatchdogIntervalIdle
    \/ Synced /\ WatchdogJobStep
    \/ Synced /\ TimedTick

SpecWatchdog == InitWatchdog /\ [][NextWatchdog]_vars

\* C5: while the batch is executing, a call that has been ringing for longer
\* than the deadline plus one sweep period is failed, or at least a watchdog job
\* is at work on it.
C5_StuckCallFailedInTime == \A c \in CallIds :
    datasets[TheDataset].status = "executing" /\ ui.isExecuting /\ calls[c].status = "ringing" /\ wd[c] = "idle"
        => now <= calls[c].started_at + STUCK_CALL_TIMEOUT_MS + WATCHDOG_INTERVAL_MS

\* ------------------------------------------------------------------
\* The watchdog and the webhook on the same call
\* ------------------------------------------------------------------
\* the orchestrator has marked A ringing and sent the trigger request, whose
\* answer is slow to come; the client has seen the write
InitSweep ==
    /\ ver \in {1, 2}
    /\ apiKey = TRUE
    /\ now = 0 /\ ticks = 0
    /\ calls = [c \in {"A"} |-> [NewCall(TheDataset) EXCEPT !.status = "ringing", !.started_at = 0]]
    /\ datasets = [d \in DatasetIds |-> [NewDataset(1) EXCEPT !.status = "executing"]]
    /\ provider = [c \in {"A"} |-> [triggers |-> 1, canceled |-> FALSE]]
    /\ wh = [s \in WebhookSlots |-> IdleHandler] /\ delivered = <<>>
    /\ orch = [o \in OrchSlots |-> IF o = 1 THEN [IdleOrch EXCEPT !.pc = "active", !.dataset_id = TheDataset, !.queue = <<"A">>, !.i = 1, !.sid = Sid("A")] ELSE IdleOrch]
    /\ sc = [k \in StopOrigins \X {"A"} |-> IdleStop]
    /\ ft = [count |-> 0, h |-> [f \in FetchSlots |-> IdleFetch]]
    /\ ui = [screen |-> "command", hasDataset |-> TRUE, dataset |-> [status |-> "executing"], isExecuting |-> TRUE, isStopped |-> FALSE, timer |-> WATCHDOG_INTERVAL_MS, calls |-> [c \in {"A"} |-> LocalCall(calls[c])]]
    /\ sb = "idle"
    /\ wd = [c \in {"A"} |-> "idle"]
    /\ es = IdleStopper

NextSweep ==
    \/ \E p \in BatchPayloads : ProviderDelivers(1, p)
    \/ WebhookTerminalStep(1)
    \/ RealtimeStep
    \/ reconcileStuckCalls
    \/ WatchdogJobStep
    \/ Tick

SpecSweep == InitSweep /\ [][NextSweep]_vars

\* C11: when a watchdog sweep and a terminal webhook event race on a call, the
\* one that comes second finds the call terminal and leaves its status alone.
C11_SweepWebhookOneWinner == [][\A c \in CallIds : IsTerminal(calls[c].status) => calls'[c].status = calls[c].status]_vars

\* ------------------------------------------------------------------
\* Two trigger-calls invocations for the same dataset
\* ------------------------------------------------------------------
InitOrch ==
    /\ ver = 2
    /\ apiKey = TRUE
    /\ Initialized({"A", "B"})

\* a request {dataset_id} arrives at trigger-calls
OrchReceive(o) ==
    /\ orch[o].pc = "idle"
    /\ orch' = [orch EXCEPT ![o] = OrchInvoked(TheDataset)]
    /\ UNCHANGED <<envVars, ft, calls, datasets, provider, whVars, sc, clientVars>>

NextOrch ==
    \/ \E o \in OrchSlots : OrchReceive(o)
    \/ \E o \in OrchSlots : OrchStep(o)

SpecOrch == InitOrch /\ [][NextOrch]_vars

\* C12: with two orchestrator invocations running at once for a batch, the
\* provider is asked to trigger each call at most once.
C12_TriggeredOnce == \A c \in CallIds : provider[c].triggers <= 1

\* ------------------------------------------------------------------
\* A batch whose webhooks are all lost
\* ------------------------------------------------------------------
NextLost ==
    \/ StartBatchStep
    \/ ScenarioOrch(1)
    \/ RealtimeStep
    \/ reconcileStuckCalls
    \/ WatchdogJobStep
    \/ Tick

\* every step that can be taken is taken in the end: the watchdog's interval
\* keeps firing, requests are answered, realtime updates arrive
SpecLost ==
    /\ InitOrch /\ [][NextLost]_vars
    /\ WF_vars(StartBatchStep) /\ WF_vars(ScenarioOrch(1)) /\ WF_vars(RealtimeStep)
    /\ WF_vars(reconcileStuckCalls) /\ WF_vars(WatchdogJobStep) /\ WF_vars(Tick)

\* C13: an executing batch whose webhooks are all lost is brought to completed
\* or failed in the end.
C13_LostWebhooksBatchEnds == (datasets[TheDataset].status = "executing") ~> (datasets[TheDataset].status \in {"completed", "failed"})

\* C14: every delivery is answered 200, whether or not the payload names a call,
\* the call exists or the event is known.
C14_AlwaysAcked == \A s \in WebhookSlots : wh[s].resp.status \in {0, 200}

\* the step in which handler s writes a transcript chunk
TranscriptWritten(s) == wh[s].pc = "t_update" /\ wh'[s].pc # "t_update"

\* C15: a transcript chunk for a terminal call changes nothing of the call; for a
\* queued or ringing call it changes the status only to active; for an active
\* call it leaves the status as it is.
C15_TranscriptChunk == [][\A s \in WebhookSlots : TranscriptWritten(s) =>
    LET c == wh[s].call.id IN
    IF IsTerminal(calls[c].status) THEN calls'[c] = calls[c] ELSE calls'[c].status = "active"]_vars

\* the step in which handler s, having found no call left, marks the dataset
CompletionMarked(s) == wh[s].pc \in {"c_mark", "f_mark"} /\ wh'[s].pc # wh[s].pc

\* C16: the completion check run on a batch that is already completed changes no
\* field of the batch, not even completed_at.
C16_CompletionCheckIdempotent == [][\A s \in WebhookSlots : CompletionMarked(s) /\ datasets[resolvedDatasetId(wh[s])].status = "completed" => datasets' = datasets]_vars

\* ------------------------------------------------------------------
\* One trigger-calls run over three queued calls
\* ------------------------------------------------------------------
InitTrigger ==
    /\ ver = 2
    /\ apiKey = TRUE
    /\ Initialized({"A", "B", "C"})

NextTrigger ==
    \/ OrchReceive(1)
    \/ OrchStep(1)

SpecTrigger == InitTrigger /\ [][NextTrigger]_vars

\* the run has answered
OrchAnswered == orch[1].pc = "done" /\ orch[1].resp = 200

\* C17: a failed trigger marks only the call it was for as failed, and the run
\* still attempts every later call: when it answers, each call was triggered.
C17_IsolateAndContinue ==
    /\ [](OrchAnswered => \A c \in CallIds : provider[c].triggers = 1 /\ calls[c].status \in {"active", "failed"})
    /\ [][\A c \in CallIds : calls'[c].status = "failed" /\ calls[c].status # "failed" => orch[1].pc = "failed" /\ c = OrchCall(1)]_vars

\* the first call of the run has failed and the second has been triggered
C17_Witness ==
    /\ orch[1].pc \in {"active", "failed"} /\ orch[1].i = 2
    /\ calls[orch[1].queue[1]].status = "failed"
    /\ provider[orch[1].queue[2]].triggers = 1

\* C18: a write of an orchestrator run that is still in flight leaves a call the
\* emergency stop has canceled as it is.
C18_OrchLeavesCanceled == [][orch' # orch => \A c \in CallIds : calls[c].status = "canceled" => calls'[c].status = "canceled"]_vars

\* C19: a call becomes canceled only in a step of the emergency stop; no webhook
\* event and no status the provider's details endpoint returns cancels a call.
C19_CanceledOnlyByCommand == [][\A c \in CallIds : calls'[c].status = "canceled" /\ calls[c].status # "canceled" => es' # es]_vars

\* C20: a step of stop-call, of the watchdog's forced failure or of the
\* transcript fetch leaves the status and completed_at of a call that is already
\* terminal as they are.
C20_TerminalWriteNoOp == [][sc' # sc \/ wd' # wd \/ ft' # ft => \A c \in CallIds : IsTerminal(calls[c].status) => calls'[c].status = calls[c].status /\ calls'[c].completed_at = calls[c].completed_at]_vars

\* ------------------------------------------------------------------
\* The counters against the calls
\* ------------------------------------------------------------------
CallsWith(d, statuses) == {c \in CallIds : calls[c].dataset_id = d /\ calls[c].status \in statuses}

\* C21: whenever nothing is running, successful_calls is the number of completed
\* calls of the batch and failed_calls the number of its failed and canceled
\* calls, whichever path made them terminal.
C21_CountersMatchCalls == \A d \in DatasetIds : Quiescent => datasets[d].successful_calls = Cardinality(CallsWith(d, {"completed"})) /\ datasets[d].failed_calls = Cardinality(CallsWith(d, {"failed", "canceled"}))

\* ------------------------------------------------------------------
\* trigger-calls as first built: it simulates the end of every call it has
\* placed and, 15 s after the loop, writes the batch's counts itself
\* ------------------------------------------------------------------
IdleFirst == [pc |-> "idle", dataset_id |-> NULL, queue |-> <<>>, i |-> 0, sid |-> NoId, resp |-> 0, successCount |-> 0, failCount |-> 0, simulated |-> {}, counting |-> {}, marking |-> "none"]

\* the request arrives; without SUBVERSE_API_KEY serve throws and answers 500
FirstInvoked(d) == IF apiKey THEN [IdleFirst EXCEPT !.pc = "select", !.dataset_id = d] ELSE [IdleFirst EXCEPT !.pc = "done", !.dataset_id = d, !.resp = 500]

FirstReceive(o) ==
    /\ orch[o].pc = "idle"
    /\ orch' = [orch EXCEPT ![o] = FirstInvoked(TheDataset)]
    /\ UNCHANGED <<envVars, ft, calls, datasets, provider, whVars, sc, clientVars>>

\* the loop goes on to the next call, or it ends: setTimeout(..., 15000) for the
\* write of the counts, and serve answers 200
FirstAdvance(r) == IF r.i < Len(r.queue) THEN [r EXCEPT !.pc = "ringing", !.i = @ + 1, !.sid = NoId] ELSE [r EXCEPT !.pc = "done", !.sid = NoId, !.resp = 200, !.marking = "pending"]

\* update({status: "active", call_sid}).eq("id", call.id); successCount++;
\* setTimeout(..., 5000 + Math.random() * 5000) for the simulated completion
FirstMarkActive(o) ==
    /\ orch[o].pc = "active"
    /\ calls' = [calls EXCEPT ![OrchCall(o)].status = "active", ![OrchCall(o)].call_sid = orch[o].sid]
    /\ orch' = [orch EXCEPT ![o] = FirstAdvance([orch[o] EXCEPT !.successCount = @ + 1, !.simulated = @ \cup {OrchCall(o)}])]
    /\ UNCHANGED <<envVars, ft, datasets, provider, whVars, sc, clientVars>>

\* catch: update({status: "failed", error_message, completed_at}).eq("id", call.id); failCount++
FirstMarkFailed(o) ==
    /\ orch[o].pc = "failed"
    /\ calls' = [calls EXCEPT ![OrchCall(o)].status = "failed", ![OrchCall(o)].error_message = TriggerErrorMessage, ![OrchCall(o)].completed_at = now]
    /\ orch' = [orch EXCEPT ![o] = FirstAdvance([orch[o] EXCEPT !.failCount = @ + 1])]
    /\ UNCHANGED <<envVars, ft, datasets, provider, whVars, sc, clientVars>>

SimulatedDuration == 15

\* the simulated completion fires: update({status: "completed", completed_at,
\* live_transcript, call_duration}).eq("id", call.id)
SimulatedCompletion(o, c) ==
    /\ c \in orch[o].simulated
    /\ calls' = [calls EXCEPT ![c].status = "completed", ![c].completed_at = now, ![c].live_transcript = "Hello", ![c].call_duration = SimulatedDuration]
    /\ orch' = [orch EXCEPT ![o].simulated = @ \ {c}, ![o].counting = @ \cup {c}]
    /\ UNCHANGED <<envVars, ft, datasets, provider, whVars, sc, clientVars>>

\* then rpc("increment_dataset_counts", {p_dataset_id, p_successful: 1, p_failed: 0})
SimulatedIncrement(o, c) ==
    /\ c \in orch[o].counting
    /\ datasets' = increment_dataset_counts(datasets, orch[o].dataset_id, 1, 0)
    /\ orch' = [orch EXCEPT ![o].counting = @ \ {c}]
    /\ UNCHANGED <<envVars, ft, calls, provider, whVars, sc, clientVars>>

\* the 15 s timer fires, after the timers of the simulated completions:
\* datasets.update({status: "completed", completed_at, successful_calls:
\* successCount, failed_calls: failCount}).eq("id", dataset_id)
FirstMarkDataset(o) ==
    /\ orch[o].marking = "pending"
    /\ orch[o].simulated = {}
    /\ datasets' = [datasets EXCEPT ![orch[o].dataset_id] = [@ EXCEPT !.status = "completed", !.completed_at = now, !.successful_calls = orch[o].successCount, !.failed_calls = orch[o].failCount]]
    /\ orch' = [orch EXCEPT ![o].marking = "done"]
    /\ UNCHANGED <<envVars, ft, calls, provider, whVars, sc, clientVars>>

FirstStep(o) ==
    \/ OrchSelect(o)
    \/ OrchMarkRinging(o)
    \/ \E ok \in BOOLEAN : OrchTrigger(o, ok, Sid(OrchCall(o)))
    \/ FirstMarkActive(o)
    \/ FirstMarkFailed(o)
    \/ \E c \in CallIds : SimulatedCompletion(o, c)
    \/ \E c \in CallIds : SimulatedIncrement(o, c)
    \/ FirstMarkDataset(o)

\* startBatch has set the batch of A and B executing and invoked trigger-calls
InitCounts ==
    /\ ver \in {1, 2}
    /\ apiKey = TRUE
    /\ now = 0 /\ ticks = 0
    /\ calls = [c \in {"A", "B"} |-> NewCall(TheDataset)]
    /\ datasets = [d \in DatasetIds |-> [NewDataset(2) EXCEPT !.status = "executing"]]
    /\ provider = [c \in {"A", "B"} |-> [triggers |-> 0, canceled |-> FALSE]]
    /\ wh = [s \in WebhookSlots |-> IdleHandler] /\ delivered = <<>>
    /\ orch = [o \in OrchSlots |-> IdleFirst]
    /\ sc = [k \in StopOrigins \X {"A", "B"} |-> IdleStop]
    /\ ft = [count |-> 0, h |-> [f \in FetchSlots |-> IdleFetch]]
    /\ ui = [screen |-> "command", hasDataset |-> TRUE, dataset |-> [status |-> "executing"], isExecuting |-> TRUE, isStopped |-> FALSE, timer |-> WATCHDOG_INTERVAL_MS, calls |-> [c \in {"A", "B"} |-> LocalCall(calls[c])]]
    /\ sb = "invoke"
    /\ wd = [c \in {"A", "B"} |-> "idle"]
    /\ es = IdleStopper

NextCounts ==
    \/ FirstReceive(1)
    \/ FirstStep(1)
    \/ \E p \in BatchPayloads : ProviderDelivers(1, p)
    \/ WebhookTerminalStep(1)

SpecCounts == InitCounts /\ [][NextCounts]_vars

\* C22: every change of a batch's counters adds one applied delta to them: no
\* write takes an increment back or replaces the counters.
C22_NoIncrementLost == [][\A d \in DatasetIds : datasets'[d].successful_calls >= datasets[d].successful_calls /\ datasets'[d].failed_calls >= datasets[d].failed_calls /\ datasets'[d].successful_calls + datasets'[d].failed_calls <= datasets[d].successful_calls + datasets[d].failed_calls + 1]_vars

\* C23: from the click on Emergency Stop until the calls are written canceled,
\* that write can be taken at once: it waits for no stop-call request and so
\* for no answer of the provider to a cancel.
C23_StopDoesNotWait == es.pc # "idle" /\ ~es.callsDone => ENABLED emergencyStopCalls

\* ------------------------------------------------------------------
\* The watchdog's jobs when the provider's cancel fails or cannot be asked
\* ------------------------------------------------------------------
\* the orchestrator has placed A, has marked B ringing and waits for the
\* provider's answer to the trigger request for B; the client has seen the writes
InitStuck ==
    /\ ver = 2
    /\ apiKey = TRUE
    /\ now = 0 /\ ticks = 0
    /\ calls = [c \in {"A", "B"} |-> IF c = "A" THEN [NewCall(TheDataset) EXCEPT !.status = "active", !.started_at = 0, !.call_sid = Sid(c)]
                                                ELSE [NewCall(TheDataset) EXCEPT !.status = "ringing", !.started_at = 0]]
    /\ datasets = [d \in DatasetIds |-> [NewDataset(2) EXCEPT !.status = "executing"]]
    /\ provider = [c \in {"A", "B"} |-> [triggers |-> IF c = "A" THEN 1 ELSE 0, canceled |-> FALSE]]
    /\ wh = [s \in WebhookSlots |-> IdleHandler] /\ delivered = <<>>
    /\ orch = [o \in OrchSlots |-> IF o = 1 THEN [IdleOrch EXCEPT !.pc = "trigger", !.dataset_id = TheDataset, !.queue = <<"A", "B">>, !.i = 2] ELSE IdleOrch]
    /\ sc = [k \in StopOrigins \X {"A", "B"} |-> IdleStop]
    /\ ft = [count |-> 0, h |-> [f \in FetchSlots |-> IdleFetch]]
    /\ ui = [screen |-> "command", hasDataset |-> TRUE, dataset |-> [status |-> "executing"], isExecuting |-> TRUE, isStopped |-> FALSE, timer |-> WATCHDOG_INTERVAL_MS, calls |-> [c \in {"A", "B"} |-> LocalCall(calls[c])]]
    /\ sb = "idle"
    /\ wd = [c \in {"A", "B"} |-> "idle"]
    /\ es = IdleStopper

\* the provider reports A ringing after the orchestrator has written it active
RingingPayloads == {[IdentityOf("metadata", "A") EXCEPT !.event = EvRinging]}

\* a watchdog job: stop-call, whose cancel request the provider accepts or not,
\* then the client's own update
WatchdogJob(c) ==
    \/ StopCallRead(<<"wd", c>>)
    \/ StopCallCancel(<<"wd", c>>)
    \/ StopCallCancelFails(<<"wd", c>>)
    \/ StopCallUpdateAwaited(<<"wd", c>>)
    \/ WatchdogForceFailed(c)

NextStuck ==
    \/ \E p \in RingingPayloads : ProviderDelivers(1, p)
    \/ WebhookFindCall(1)
    \/ WebhookRinging(1)
    \/ \E c \in CallIds : RealtimeCall(c)
    \/ reconcileStuckCalls
    \/ \E c \in CallIds : WatchdogJob(c)
    \/ Tick

SpecStuck == InitStuck /\ [][NextStuck]_vars

\* C24: a job the watchdog has started for a stuck call is never held up, and
\* it ends with the call failed with the timeout message, whether the provider
\* accepted the cancel, refused it, or the call had no call_sid to cancel.
C24_StuckCallForcedFailed ==
    /\ [](\A c \in CallIds : wd[c] = "stop" => ENABLED WatchdogJob(c))
    /\ [][\A c \in CallIds : wd[c] = "stop" /\ wd'[c] = "idle" => calls'[c].status = "failed" /\ calls'[c].error_message = TimeoutMessage]_vars

\* the jobs for A, whose cancel the provider refused, and for B, which has no
\* call_sid, have both ended
C24_Witness ==
    /\ \A c \in CallIds : wd[c] = "idle" /\ calls[c].status = "failed" /\ calls[c].error_message = TimeoutMessage
    /\ TruthyId(calls["A"].call_sid) /\ ~provider["A"].canceled
    /\ ~TruthyId(calls["B"].call_sid)

\* the fetch handler f takes a step from the awaited operation at pc
FetchLeaves(f, pc) == ft.h[f].pc = pc /\ ft'.h[f].pc # pc

InitKey ==
    /\ ver \in {1, 2}
    /\ apiKey \in BOOLEAN
    /\ Initialized({"A", "B"})

SpecKey == InitKey /\ [][NextOrch]_vars

\* C26: without SUBVERSE_API_KEY every request to trigger-calls is answered with
\* a 5xx status, every call stays queued and the batch row stays as it was.
C26_NoKeyNoChange == ~apiKey =>
    /\ \A o \in OrchSlots : orch[o].pc \in {"idle", "done"} /\ (orch[o].pc = "done" => orch[o].resp >= 500 /\ orch[o].resp <= 599)
    /\ \A c \in CallIds : calls[c] = NewCall(TheDataset)
    /\ \A d \in DatasetIds : datasets[d] = NewDataset(Cardinality(CallIds))

\* a request has been answered 500 for want of the key
C26_Witness == ~apiKey /\ orch[1].pc = "done" /\ orch[1].resp = 500

\* ------------------------------------------------------------------
\* Events of kinds the webhook does not know
\* ------------------------------------------------------------------
EvRecordingCompleted == <<"r","e","c","o","r","d","i","n","g",".","c","o","m","p","l","e","t","e","d">>

KindPayloads == PayloadsOf({"metadata"}, {"refined", "bare"}, {EvHold, EvRecordingCompleted, EvCompleted})

NextKinds ==
    \/ \E p \in KindPayloads : WebhookReceive(1, p)
    \/ WebhookFindCall(1)
    \/ \E data \in ProviderAnswers : WebhookFetchDetails(1, data)
    \/ WebhookCompletedUpdate(1)
    \/ WebhookCompletedIncrement(1)
    \/ checkAndUpdateDatasetCompletionRead(1)
    \/ checkAndUpdateDatasetCompletionMark(1)
    \/ Tick

SpecKinds == InitWebhook /\ [][NextKinds]_vars

\* the event names serve knows, as they are written in its lists and branches
RecognisedKinds == {TRANSCRIPT_EVENTS[k] : k \in 1..Len(TRANSCRIPT_EVENTS)} \cup {COMPLETION_EVENTS[k] : k \in 1..Len(COMPLETION_EVENTS)} \cup {FAILURE_EVENTS[k] : k \in 1..Len(FAILURE_EVENTS)} \cup {EvRinging, EvAnswered, EvActive}

\* C27: a handler whose event is none of the kinds serve knows, even if its name
\* contains the name of one, writes no call and no batch and answers 200.
C27_UnknownKindIgnored == [][\A s \in WebhookSlots : wh[s].pc # "idle" /\ wh'[s] # wh[s] /\ EventTypeOf(wh[s].payload) \notin RecognisedKinds => calls' = calls /\ datasets' = datasets /\ (wh'[s].pc = "idle" => wh'[s].resp.status = 200)]_vars

\* ------------------------------------------------------------------
\* Which call a webhook is for
\* ------------------------------------------------------------------
\* the identifiers a payload may carry for the calls A, B and C
IdsFor(c) == {NoId, Sid(c), SidUuid(c)}

ResolvePayloads == {[NoPayload EXCEPT !.event = EvFailed, !.metadata_call_id = m, !.metadata_dataset_id = TheDataset, !.callId = a, !.callSid = b, !.call_id = x] : m \in {NoId, Uuid("A")}, a \in IdsFor("B"), b \in IdsFor("C"), x \in IdsFor("A")}

InitResolve ==
    /\ ver \in {1, 2}
    /\ apiKey = TRUE
    /\ \/ Placed({"A", "B", "C"}, "opaque")
       \/ Placed({"A", "B", "C"}, "uuid")

NextResolve ==
    \/ delivered = <<>> /\ \E p \in ResolvePayloads : WebhookReceive(1, p)
    \/ WebhookFindCall(1)
    \/ WebhookFindCallBySid(1)
    \/ WebhookFailedUpdate(1)
    \/ WebhookFailedIncrement(1)
    \/ checkAndUpdateDatasetCompletionRead(1)

SpecResolve == InitResolve /\ [][NextResolve]_vars

\* the call the spec's order of resolution names for a payload: the identifier
\* is metadata.call_id, else callId, else callSid, else call_id; it names the
\* call with that id, else the call with that call_sid
ResolvedCall(p) ==
    LET ids == <<p.metadata_call_id, p.callId, p.callSid, p.call_id>>
        present == {k \in 1..4 : TruthyId(ids[k])}
        id == IF present = {} THEN NoId ELSE ids[CHOOSE k \in present : \A m \in present : k <= m]
        byId == {c \in CallIds : Uuid(c) = id}
        bySid == {c \in CallIds : calls[c].call_sid = id}
    IN IF byId # {} THEN CHOOSE c \in byId : TRUE ELSE IF bySid # {} THEN CHOOSE c \in bySid : TRUE ELSE NoRow

\* C28: the call a handler works on is the one named by metadata.call_id when
\* the payload has it, else by the first of callId, callSid, call_id, looked up
\* by id first and by call_sid second; it answers 404 exactly when there is none.
C28_ResolutionOrder == \A s \in WebhookSlots :
    /\ wh[s].pc \notin {"idle", "find", "find_sid"} => wh[s].call.id = ResolvedCall(wh[s].payload)
    /\ wh[s].pc = "idle" /\ wh[s].resp.status = 404 => ResolvedCall(delivered[Len(delivered)]) = NoRow
    /\ wh[s].pc = "idle" /\ wh[s].resp.status = 200 => ResolvedCall(delivered[Len(delivered)]) # NoRow

\* a handler works on A, named in the metadata, for a payload whose callId names B
C28_Witness == \E s \in WebhookSlots : wh[s].pc = "f_update" /\ wh[s].payload.metadata_call_id = Uuid("A") /\ calls["B"].call_sid = wh[s].payload.callId /\ wh[s].call.id = "A"

\* ------------------------------------------------------------------
\* One run of the orchestrator over calls created at different times
\* ------------------------------------------------------------------
CreationTimes == {0, 1}

InitSequence ==
    /\ ver = 2
    /\ apiKey = TRUE
    /\ now = 1 /\ ticks = 0
    /\ \E t \in [{"A", "B", "C"} -> CreationTimes] : calls = [c \in {"A", "B", "C"} |-> [NewCall(TheDataset) EXCEPT !.created_at = t[c]]]
    /\ datasets = [d \in DatasetIds |-> NewDataset(3)]
    /\ provider = [c \in {"A", "B", "C"} |-> [triggers |-> 0, canceled |-> FALSE]]
    /\ wh = [s \in WebhookSlots |-> IdleHandler] /\ delivered = <<>>
    /\ orch = [o \in OrchSlots |-> IdleOrch]
    /\ sc = [k \in StopOrigins \X {"A", "B", "C"} |-> IdleStop]
    /\ ft = [count |-> 0, h |-> [f \in FetchSlots |-> IdleFetch]]
    /\ ui = [screen |-> "command", hasDataset |-> TRUE, dataset |-> LocalDataset(NewDataset(3)), isExecuting |-> FALSE, isStopped |-> FALSE, timer |-> NoTime, calls |-> [c \in {"A", "B", "C"} |-> LocalCall(calls[c])]]
    /\ sb = "idle"
    /\ wd = [c \in {"A", "B", "C"} |-> "idle"]
    /\ es = IdleStopper

SpecSequence == InitSequence /\ [][NextTrigger]_vars

\* what the store holds of the call at place k of the run's list when the run
\* is about to do the step pc for the call at place i
InSequence(r, k) ==
    LET row == calls[r.queue[k]]
        asked == provider[r.queue[k]].triggers
    IN IF k < r.i THEN asked = 1 /\ (row.status = "failed" \/ (row.status = "active" /\ row.call_sid = Sid(r.queue[k])))
       ELSE IF k > r.i \/ r.pc = "ringing" THEN asked = 0 /\ row.status = "queued" /\ row.started_at = NoTime
       ELSE IF r.pc = "trigger" THEN asked = 0 /\ row.status = "ringing" /\ row.started_at # NoTime
       ELSE IF r.pc \in {"active", "failed"} THEN asked = 1 /\ row.status = "ringing"
       ELSE asked = 1 /\ row.status = "failed"

RetryJob(c) ==
    \/ StopCallRead(<<"wd", c>>)
    \/ StopCallUpdateAwaited(<<"wd", c>>)
    \/ StopCallUpdateFails(<<"wd", c>>)
    \/ WatchdogForceFailed(c)
    \/ WatchdogForceFails(c)

\* the provider answers the trigger request for B at last
LateAnswer ==
    \/ \E ok \in BOOLEAN : OrchTrigger(1, ok, Sid(OrchCall(1)))
    \/ OrchMarkActive(1)
    \/ OrchMarkFailed(1)
    \/ OrchIncrementFailed(1)

NextRetry ==
    \/ \E c \in CallIds : RealtimeCall(c)
    \/ reconcileStuckCalls
    \/ \E c \in CallIds : RetryJob(c)
    \/ LateAnswer
    \/ Tick

SpecRetry == InitStuck /\ [][NextRetry]_vars /\ WF_vars(\E c \in CallIds : RealtimeCall(c)) /\ WF_vars(reconcileStuckCalls) /\ WF_vars(\E c \in CallIds : RetryJob(c)) /\ WF_vars(LateAnswer) /\ WF_vars(Tick)

\* C30: after a job's write for a stuck call has failed, a later sweep starts a
\* job for the call again, unless the call has become terminal or the batch is
\* no longer executing.
C30_FailedWriteRetried == \A c \in {"A", "B"} : (wd[c] = "logged") ~> (wd[c] = "stop" \/ IsTerminal(calls[c].status) \/ ~ui.isExecuting)

\* ------------------------------------------------------------------
\* A trigger-calls run whose writes the store may refuse, and the provider's
\* progress events for the calls it was asked to place
\* ------------------------------------------------------------------
ProgressPayloads == PayloadsOf({"metadata"}, {"raw"}, {EvRinging, EvAnswered, EvTranscript})

NextStarted ==
    \/ OrchReceive(1)
    \/ OrchStep(1)
    \/ OrchMarkRingingFails(1)
    \/ \E p \in ProgressPayloads : ProviderDelivers(1, p)
    \/ WebhookFindCall(1)
    \/ WebhookTranscript(1)
    \/ WebhookRinging(1)
    \/ WebhookActive(1)

SpecStarted == InitOrch /\ [][NextStarted]_vars

\* C31: in every reachable state a call that is ringing or active has a
\* started_at, whichever handler took it out of queued.
C31_StartedAtSet == \A c \in CallIds : calls[c].status \in {"ringing", "active"} => calls[c].started_at # NoTime

\* ------------------------------------------------------------------
\* Emergency stop of a batch whose calls are in progress, with the provider's
\* final events still arriving and the Start Batch button shown again
\* ------------------------------------------------------------------
InitLate ==
    /\ ver \in {1, 2}
    /\ apiKey = TRUE
    /\ Placed({"A"}, "opaque")

NextLate ==
    \/ EmergencyStep
    \/ RealtimeStep
    \/ \E p \in BatchPayloads : ProviderDelivers(1, p)
    \/ WebhookTerminalStep(1)
    \/ StartBatchStep
    \/ OrchSelect(1)

SpecLate == InitLate /\ [][NextLate]_vars

BatchTerminal(d) == datasets[d].status \in {"completed", "failed"}

\* C32: once the status of a batch is completed or failed, no step changes it.
C32_BatchStatusSticky == [][\A d \in DatasetIds : BatchTerminal(d) => datasets'[d].status = datasets[d].status]_vars

\* as C32, leaving out the steps of startBatch
C32_CheckLeavesStopped == [][\A d \in DatasetIds : BatchTerminal(d) /\ sb = "idle" /\ sb' = "idle" => datasets'[d].status = datasets[d].status]_vars

\* C33: in every reachable state, a batch whose status is completed has all its
\* calls in a terminal status.
C33_CompletedMeansAllTerminal == \A d \in DatasetIds : datasets[d].status = "completed" => AllTerminal(d)

\* ------------------------------------------------------------------
\* The completion check with a store that may refuse its read
\* ------------------------------------------------------------------
InitCheck ==
    /\ ver \in {1, 2}
    /\ apiKey = TRUE
    /\ Placed({"A", "B"}, "opaque")

NextCheck ==
    \/ \E p \in BatchPayloads : WebhookReceive(1, p)
    \/ WebhookTerminalStep(1)
    \/ checkAndUpdateDatasetCompletionReadFails(1)

SpecCheck == InitCheck /\ [][NextCheck]_vars

\* C34: the completion check marks the batch completed only after a read that
\* succeeded and returned no non-terminal call; after a read that failed the
\* batch status stays as it was.
C34_MarksOnlyOnEmptyRead == [][\A d \in DatasetIds : datasets'[d].status # datasets[d].status => \E s \in WebhookSlots : wh[s].pc \in {"c_mark", "f_mark"} /\ wh[s].remaining = 0]_vars

\* ------------------------------------------------------------------
\* Two batches in progress, and final events whose metadata names either
\* ------------------------------------------------------------------
OtherDataset == "d2"

\* the batch a call was inserted for
OwnerOf(c) == IF c = "A" THEN TheDataset ELSE OtherDataset

InitOwner ==
    /\ ver \in {1, 2}
    /\ apiKey = TRUE
    /\ now = 0 /\ ticks = 0
    /\ calls = [c \in {"A", "B"} |-> [NewCall(OwnerOf(c)) EXCEPT !.status = "active", !.started_at = 0, !.call_sid = Sid(c)]]
    /\ datasets = [d \in {TheDataset, OtherDataset} |-> [NewDataset(1) EXCEPT !.status = "executing"]]
    /\ provider = [c \in {"A", "B"} |-> [triggers |-> 1, canceled |-> FALSE]]
    /\ wh = [s \in WebhookSlots |-> IdleHandler] /\ delivered = <<>>
    /\ orch = [o \in OrchSlots |-> IdleOrch]
    /\ sc = [k \in StopOrigins \X {"A", "B"} |-> IdleStop]
    /\ ft = [count |-> 0, h |-> [f \in FetchSlots |-> IdleFetch]]
    /\ ui = [screen |-> "command", hasDataset |-> TRUE, dataset |-> [status |-> "executing"], isExecuting |-> TRUE, isStopped |-> FALSE, timer |-> WATCHDOG_INTERVAL_MS, calls |-> [c \in {"A"} |-> LocalCall(calls[c])]]
    /\ sb = "idle"
    /\ wd = [c \in {"A", "B"} |-> "idle"]
    /\ es = IdleStopper

\* final events for a call, their metadata carrying the id of either batch or none
OwnerPayloads == {[p EXCEPT !.metadata_dataset_id = d] : p \in BatchPayloads, d \in {TheDataset, OtherDataset, NULL}}

NextOwner ==
    \/ \E p \in OwnerPayloads : WebhookReceive(1, p)
    \/ WebhookTerminalStep(1)

SpecOwner == InitOwner /\ [][NextOwner]_vars

\* C35: a step of a webhook handler that changes the row of a batch (its
\* counters or its status) is a step of a handler whose call belongs to that batch.
C35_OwnBatchCounted == [][\A d \in DOMAIN datasets : datasets'[d] # datasets[d] => \E s \in WebhookSlots : wh[s].call.id # NoRow /\ calls[wh[s].call.id].dataset_id = d]_vars

\* C36: while the batch is executing, the moment the watchdog interval fires
\* next is moved only by the interval firing, so that two consecutive sweeps are
\* never more than one period apart, however often row updates reach the client.
C36_SweepEveryPeriod == [][ui.isExecuting /\ ui'.isExecuting /\ ui.timer # NoTime /\ ui'.timer # ui.timer => now = ui.timer /\ ui'.timer = now + WATCHDOG_INTERVAL_MS]_vars

\* the completion watcher has just moved the client from executing to the
\* summary screen: its calls changed, and all of them are terminal
WatcherRedirects == ui.isExecuting /\ ~ui'.isExecuting /\ ui'.screen = "summary" /\ ui'.calls # ui.calls /\ \A c \in DOMAIN ui'.calls : IsTerminal(ui'.calls[c].status)

\* C37: when the completion watcher moves the client to the summary screen, the
\* stored batch is completed or failed and its two counters add up to total_calls.
C37_SummaryMeansBatchDone == [][WatcherRedirects => BatchTerminal(TheDataset) /\ datasets[TheDataset].successful_calls + datasets[TheDataset].failed_calls = datasets[TheDataset].total_calls]_vars

\* as C37, for the batch status alone
C37_SummaryMeansBatchTerminal == [][WatcherRedirects => BatchTerminal(TheDataset)]_vars

\* a step of a watchdog job: of its stop-call invocation or of its own update
WatchdogActs == \E c \in CallIds : wd'[c] # wd[c] \/ sc'[<<"wd", c>>] # sc[<<"wd", c>>]

\* C38: once the client's isExecuting is false, no step of the watchdog asks
\* the provider to cancel a call or writes a calls row.
C38_WatchdogOnlyWhileExecuting == [][~ui.isExecuting /\ WatchdogActs => calls' = calls /\ provider' = provider]_vars

\* as C38, for the sweep itself: it starts no job once isExecuting is false
C38_NoSweepAfterExecuting == [][~ui.isExecuting => \A c \in CallIds : wd[c] = "idle" => wd'[c] = "idle"]_vars

\* ------------------------------------------------------------------
\* startBatch with and without the provider's key configured
\* ------------------------------------------------------------------
InitStart ==
    /\ ver \in {1, 2}
    /\ apiKey \in BOOLEAN
    /\ Initialized({"A", "B"})

NextStart ==
    \/ StartBatchStep
    \/ StartBatchFailed(1)
    \/ OrchStep(1)
    \/ RealtimeStep

SpecStart == InitStart /\ [][NextStart]_vars

\* startBatch has just caught the error of the trigger-calls invocation
StartBatchCaught == sb = "invoke" /\ sb' = "idle" /\ orch[1].resp # 200

\* C39: when startBatch ends because trigger-calls answered an error, the stored
\* batch is not left executing.
C39_FailedStartNotExecuting == [][StartBatchCaught => datasets'[TheDataset].status # "executing"]_vars

====
